---- MODULE Spec2Model ----
\* Persistent fork-choice storage core (fork_choice_control/src/storage.rs):
\* the anchor loader `Storage::load`, the checkpoint writer `Storage::append`
\* and the read paths they rely on, over a key-value database with atomic
\* batch puts.
EXTENDS Integers, Sequences, FiniteSets, TLC

VARIABLES
    db,                      \* Storage.database: key -> value
    prune_storage,           \* Storage.prune_storage
    archival_epoch_interval, \* Storage.archival_epoch_interval
    pc,                      \* position of the running `load`: idle / await / commit
    ld,                      \* locals of the running `load`
    ret,                     \* what the last finished operation was given and returned
    nops                     \* number of operations started so far

vars == <<db, prune_storage, archival_epoch_interval, pc, ld, ret, nops>>

-----------------------------------------------------------------------------
\* Bounds of the model.

MaxOps == 2
MaxUnfinalized == 2
MaxFinalized == 2
MaxBlobOps == 3
MaxSidecars == 2

-----------------------------------------------------------------------------
\* Option<T>: None is <<>>, Some(v) is <<v>>.

None == << >>
Some(v) == <<v>>
IsSome(o) == Len(o) = 1
Unwrap(o) == o[1]

\* Slots per epoch of the preset (mainnet).
SLOTS_PER_EPOCH == 32

\* Values `archival_epoch_interval` is constructed with (a non-zero u64).
ArchivalIntervals == {1, 4}

\* misc::is_epoch_start::<P>(slot)
is_epoch_start(slot) == slot % SLOTS_PER_EPOCH = 0

\* misc::compute_epoch_at_slot::<P>(slot), through Storage::epoch_at_slot
epoch_at_slot(slot) == slot \div SLOTS_PER_EPOCH

\* U64Ext::is_multiple_of
is_multiple_of(n, d) == n % d = 0

\* misc::compute_start_slot_at_epoch::<P>(epoch)
compute_start_slot_at_epoch(epoch) == epoch * SLOTS_PER_EPOCH

-----------------------------------------------------------------------------
\* The blocks the environment can present. Roots 1, 2, 3 are the canonical
\* chain (slots 0, 1, 32); roots 4 and 5 are a fork off the genesis block with
\* blocks at the same slots 1 and 32; roots 6, 7, 8 continue the canonical chain
\* at the epoch starts 64, 96, 128. A block's state_root names its post-state.

ZERO_ROOT == 0

BlockTable ==
    (1 :> [slot |-> 0,  parent_root |-> 0, state_root |-> 101]) @@
    (2 :> [slot |-> 1,  parent_root |-> 1, state_root |-> 102]) @@
    (3 :> [slot |-> 32, parent_root |-> 2, state_root |-> 103]) @@
    (4 :> [slot |-> 1,  parent_root |-> 1, state_root |-> 104]) @@
    (5 :> [slot |-> 32, parent_root |-> 4, state_root |-> 105]) @@
    (6 :> [slot |-> 64, parent_root |-> 3, state_root |-> 106]) @@
    (7 :> [slot |-> 96, parent_root |-> 6, state_root |-> 107]) @@
    (8 :> [slot |-> 128, parent_root |-> 7, state_root |-> 108])

\* The blocks of arbitrary call sequences (Spec).
CanonicalRoots == {1, 2, 3}
ForkRoots == {4, 5}
Roots == CanonicalRoots \cup ForkRoots

\* The finalized links of the four-epoch scenario (SpecS2).
ScenarioRoots == {3, 6, 7, 8}

\* phase0::consts::GENESIS_SLOT
GENESIS_SLOT == 0

\* SignedBeaconBlock::message().hash_tree_root(): injective on the blocks above.
hash_tree_root(block) == CHOOSE r \in DOMAIN BlockTable : BlockTable[r] = block

\* A BeaconState is identified by the last block applied to it and its slot.
PostState(r) == [slot |-> BlockTable[r].slot, latest_block_root |-> r]

\* combined::process_slots(config, state, slot): empty-slot advance.
process_slots(state, slot) == [state EXCEPT !.slot = slot]

\* ChainLink of the fork-choice store; ChainLink::slot() is the block's slot.
Link(r, v) ==
    [block_root |-> r, block |-> BlockTable[r], state |-> PostState(r), valid |-> v]

LinkSlot(chain_link) == chain_link.block.slot

\* GenesisProvider::block() and GenesisProvider::state()
GenesisBlock == BlockTable[CHOOSE r \in CanonicalRoots : BlockTable[r].slot = GENESIS_SLOT]
GenesisState == PostState(hash_tree_root(GenesisBlock))

-----------------------------------------------------------------------------
\* Storage keys. A key is <<prefix, payload>>; the literal keys carry payload 0.

FinalizedBlockByRoot(root)   == <<"b", root>>
UnfinalizedBlockByRoot(root) == <<"b_nf", root>>
BlockRootBySlot(slot)        == <<"r", slot>>
StateByBlockRoot(root)       == <<"s", root>>
SlotByStateRoot(root)        == <<"t", root>>
StateCheckpointKEY           == <<"cstate2", 0>>
BlockCheckpointKEY           == <<"cblock", 0>>

\* The two blob sidecar families carry a tuple as payload.
BlobSidecarByBlobId(root, index) == <<"o", <<root, index>>>>
SlotBlobId(slot, root, index) == <<"i", <<slot, root, index>>>>

\* BlobIdentifier { block_root, index }
BlobIdentifier(root, index) == [block_root |-> root, index |-> index]

\* Iterator::rev
RECURSIVE Reverse(_)
Reverse(seq) == IF seq = << >> THEN << >> ELSE Append(Reverse(Tail(seq)), Head(seq))

\* The bytes of the key prefixes and literal keys (ASCII).
PrefixBytes ==
    ("b" :> <<98>>) @@ ("b_nf" :> <<98, 95, 110, 102>>) @@ ("r" :> <<114>>) @@
    ("s" :> <<115>>) @@ ("t" :> <<116>>) @@ ("o" :> <<111>>) @@ ("i" :> <<105>>) @@
    ("cstate2" :> <<99, 115, 116, 97, 116, 101, 50>>) @@
    ("cblock" :> <<99, 98, 108, 111, 99, 107>>)

\* Slot::MAX (u64::MAX), held as the largest integer of the checker.
SLOT_MAX == 2147483647

\* n divided by base, e times.
RECURSIVE ShiftRight(_, _, _)
ShiftRight(n, base, e) ==
    IF e = 0 \/ n = 0 THEN n ELSE ShiftRight(n \div base, base, e - 1)

\* The digits of n in the given base, zero-padded to width characters
\* ('0'..'9' are 48..57, 'a'..'f' are 97..102).
Digits(n, base, width) ==
    [i \in 1..width |->
        LET digit == ShiftRight(n, base, width - i) % base
        IN  IF digit < 10 THEN 48 + digit ELSE 87 + digit]

\* {_0:020} of a slot.
Dec20(slot) ==
    IF slot = SLOT_MAX
    THEN <<49, 56, 52, 52, 54, 55, 52, 52, 48, 55, 51, 55, 48, 57, 53, 53, 49, 54, 49, 53>>
    ELSE Digits(slot, 10, 20)

\* {_0:x} of an H256: 64 lowercase hex digits.
Hex64(root) == Digits(root, 16, 64)

\* {} of a BlobIndex: decimal without padding.
RECURSIVE Decimal(_)
Decimal(n) == IF n < 10 THEN <<48 + n>> ELSE Decimal(n \div 10) \o <<48 + (n % 10)>>

\* Display of a key: the string the database is keyed by.
Display(key) ==
    PrefixBytes[key[1]] \o
    (CASE key[1] = "r" -> Dec20(key[2])
       [] key[1] \in {"b", "b_nf", "s", "t"} -> Hex64(key[2])
       [] key[1] = "o" -> Hex64(key[2][1]) \o Decimal(key[2][2])
       [] key[1] = "i" -> Dec20(key[2][1]) \o Hex64(key[2][2]) \o Decimal(key[2][3])
       [] OTHER -> << >>)

\* BlobIdentifier::to_ssz: the 32 bytes of the root, then the index as a
\* little-endian u64.
to_ssz(blob_id) ==
    [i \in 1..32 |-> ShiftRight(blob_id.block_root, 256, 32 - i) % 256]
    \o [i \in 1..8 |-> ShiftRight(blob_id.index, 256, i - 1) % 256]

\* The blob sidecars the environment can present: two of one block at slot 10,
\* one of a competing block at slot 10, one at slot 11 and one at slot 12.
BlobSidecars ==
    { [slot |-> 10, block_root |-> 21, index |-> 0],
      [slot |-> 10, block_root |-> 21, index |-> 1],
      [slot |-> 10, block_root |-> 24, index |-> 0],
      [slot |-> 11, block_root |-> 22, index |-> 0],
      [slot |-> 12, block_root |-> 23, index |-> 0] }

\* The keys the blob sidecar operations can form.
BlobKeys ==
    {BlobSidecarByBlobId(b.block_root, b.index) : b \in BlobSidecars}
    \cup {SlotBlobId(b.slot, b.block_root, b.index) : b \in BlobSidecars}
    \cup {SlotBlobId(b.slot, ZERO_ROOT, 0) : b \in BlobSidecars}

\* The keys the model can form, and their strings computed once.
AllSlots ==
    UNION {{BlockTable[r].slot, BlockTable[r].slot + 1} : r \in DOMAIN BlockTable}
    \cup {SLOT_MAX}
AllRoots ==
    DOMAIN BlockTable \cup {BlockTable[r].state_root : r \in DOMAIN BlockTable}
    \cup {ZERO_ROOT}
AllKeys ==
    ({"b", "b_nf", "s", "t"} \X AllRoots) \cup ({"r"} \X AllSlots)
    \cup {<<"cstate2", 0>>, <<"cblock", 0>>}
    \cup BlobKeys
KeyStrings == [key \in AllKeys |-> Display(key)]

to_string(key) == IF key \in AllKeys THEN KeyStrings[key] ELSE Display(key)

\* <Family>::has_prefix: bytes.starts_with(PREFIX)
has_prefix(bytes, prefix) ==
    /\ Len(bytes) >= Len(PrefixBytes[prefix])
    /\ SubSeq(bytes, 1, Len(PrefixBytes[prefix])) = PrefixBytes[prefix]

\* Lexicographic order of byte strings.
\* a and b agree before position i: the first position from i on where
\* they differ, or the shorter length when there is none, decides.
BytesLessFrom(a, b, i) ==
    IF i > Len(b) THEN FALSE
    ELSE IF i > Len(a) THEN TRUE
    ELSE LET n == IF Len(a) < Len(b) THEN Len(a) ELSE Len(b)
             differ == {k \in i..n : a[k] # b[k]}
         IN  IF differ = {} THEN Len(a) < Len(b)
             ELSE LET first == CHOOSE k \in differ : \A j \in differ : k <= j
                  IN  a[first] < b[first]

BytesLess(a, b) == BytesLessFrom(a, b, 1)

\* The keys of a set in ascending order of their strings.
RECURSIVE SortKeys(_)
SortKeys(keys) ==
    IF keys = {} THEN << >>
    ELSE LET least == CHOOSE k \in keys :
                        \A j \in keys \ {k} : BytesLess(to_string(k), to_string(j))
         IN  <<least>> \o SortKeys(keys \ {least})

\* Database::iterator_ascending(from..): the keys at or after `from`, ascending.
iterator_ascending(d, from) ==
    SortKeys({k \in DOMAIN d : ~BytesLess(to_string(k), from)})

\* Database::iterator_descending(..=to): the keys at or before `to`, descending.
iterator_descending(d, to) ==
    Reverse(SortKeys({k \in DOMAIN d : ~BytesLess(to, to_string(k))}))

\* serialize(key, value): one entry of a batch.
serialize(key, value) == <<key, value>>

\* Database::put_batch: all entries become visible together, applied in the
\* order given, so a later entry for a key replaces an earlier one.
RECURSIVE PutBatch(_, _)
PutBatch(d, batch) ==
    IF batch = << >> THEN d
    ELSE LET e == Head(batch)
             rest == [k \in DOMAIN d \ {e[1]} |-> d[k]]
         IN  PutBatch((e[1] :> e[2]) @@ rest, Tail(batch))

\* Database::delete(key): the entry whose key is the given bytes is removed,
\* when there is one.
Delete(d, key_bytes) ==
    [k \in {x \in DOMAIN d : to_string(x) # key_bytes} |-> d[k]]

\* Storage::get: Database::get and deserialization of the value.
Get(d, key) == IF key \in DOMAIN d THEN Some(d[key]) ELSE None

\* Storage::contains_key
contains_key(d, key) == key \in DOMAIN d

EmptyDb == [k \in {} |-> 0]

finalized_block_by_root(d, root)   == Get(d, FinalizedBlockByRoot(root))
unfinalized_block_by_root(d, root) == Get(d, UnfinalizedBlockByRoot(root))
block_root_by_slot(d, slot)        == Get(d, BlockRootBySlot(slot))
state_by_block_root(d, root)       == Get(d, StateByBlockRoot(root))
slot_by_state_root(d, root)        == Get(d, SlotByStateRoot(root))
load_block_checkpoint(d)           == Get(d, BlockCheckpointKEY)
load_state_checkpoint(d)           == Get(d, StateCheckpointKEY)

\* Storage::blob_sidecar_by_id
blob_sidecar_by_id(d, blob_id) ==
    Get(d, BlobSidecarByBlobId(blob_id.block_root, blob_id.index))

\* Storage::checkpoint_state_slot
checkpoint_state_slot(d) ==
    IF IsSome(load_state_checkpoint(d))
    THEN Some(Unwrap(load_state_checkpoint(d)).head_slot)
    ELSE None

-----------------------------------------------------------------------------
\* Storage::append

\* The filter that keeps valid links only, finalized or not.
SelectPairsValidOnly(seq) == SelectSeq(seq, LAMBDA p : p[1].valid)

\* filter(|(chain_link, is_finalized)| *is_finalized || chain_link.is_valid())
SelectPairs(seq) == SelectSeq(seq, LAMBDA p : p[2] \/ p[1].valid)

\* The chain with the finalized links ahead of the unfinalized ones.
AppendChainFinalizedFirst(unfinalized, finalized) ==
    SelectPairs([i \in 1..Len(finalized) |-> <<Reverse(finalized)[i], TRUE>>]
                \o [i \in 1..Len(unfinalized) |-> <<unfinalized[i], FALSE>>])

\* The chain iterated by append: the unfinalized links flagged false, then the
\* finalized links reversed and flagged true, without the links that are
\* neither finalized nor valid.
AppendChain(unfinalized, finalized) ==
    SelectPairs([i \in 1..Len(unfinalized) |-> <<unfinalized[i], FALSE>>]
                \o [i \in 1..Len(finalized) |-> <<Reverse(finalized)[i], TRUE>>])

\* store_head_slot taken from the first link alone when there is one.
StoreHeadSlotFirstLink(d, chain) ==
    LET stored == IF IsSome(load_state_checkpoint(d))
                  THEN Unwrap(load_state_checkpoint(d)).head_slot
                  ELSE 0
    IN  IF chain # << >> THEN LinkSlot(chain[1][1]) ELSE stored

\* store_head_slot: the stored head_slot (0 without a StateCheckpoint), raised
\* to the slot of the first link of the chain.
StoreHeadSlot(d, chain) ==
    LET stored == IF IsSome(load_state_checkpoint(d))
                  THEN Unwrap(load_state_checkpoint(d)).head_slot
                  ELSE 0
        Max(a, b) == IF a >= b THEN a ELSE b
    IN  IF chain # << >> THEN Max(LinkSlot(chain[1][1]), stored) ELSE stored

\* The block and slot-index entries of one link (pruning disabled).
BlockEntries(chain_link, finalized) ==
    << IF finalized
       THEN serialize(FinalizedBlockByRoot(chain_link.block_root), chain_link.block)
       ELSE serialize(UnfinalizedBlockByRoot(chain_link.block_root), chain_link.block),
       serialize(BlockRootBySlot(LinkSlot(chain_link)), chain_link.block_root) >>

\* The state-root index entry of a finalized link (pruning disabled).
StateRootEntries(chain_link) ==
    << serialize(SlotByStateRoot(chain_link.block.state_root), LinkSlot(chain_link)) >>

\* The StateCheckpoint written without its BlockCheckpoint.
CheckpointEntriesStateOnly(chain_link, store_head_slot) ==
    << serialize(StateCheckpointKEY,
                 [block_root |-> chain_link.block_root,
                  head_slot  |-> store_head_slot,
                  state      |-> chain_link.state]) >>

\* The checkpoint pair written for a finalized epoch-start link.
CheckpointEntries(chain_link, store_head_slot) ==
    << serialize(BlockCheckpointKEY, [block |-> chain_link.block]),
       serialize(StateCheckpointKEY,
                 [block_root |-> chain_link.block_root,
                  head_slot  |-> store_head_slot,
                  state      |-> chain_link.state]) >>

\* The archival snapshot taken at every epoch start, whatever the interval.
ArchivalAppendStateEveryEpoch(state_slot, interval) == is_epoch_start(state_slot)

\* Whether a finalized link at state_slot gets the archival snapshot.
ArchivalAppendState(state_slot, interval) ==
    is_epoch_start(state_slot) /\ is_multiple_of(epoch_at_slot(state_slot), interval)

\* The checkpoint pair written for every finalized epoch-start link.
CheckpointDueEveryTime(finalized, checkpoint_state_appended, state_slot) ==
    finalized /\ is_epoch_start(state_slot)

\* Whether the link gets the checkpoint pair: finalized, none written yet in
\* this call, and at an epoch start.
CheckpointDue(finalized, checkpoint_state_appended, state_slot) ==
    finalized /\ ~checkpoint_state_appended /\ is_epoch_start(state_slot)

\* The snapshot written for every qualifying finalized link.
ArchivalDueEveryTime(finalized, archival_state_appended, prune, state_slot, interval) ==
    finalized /\ ~prune /\ ArchivalAppendState(state_slot, interval)

\* Whether the link gets the archival snapshot: finalized, none written yet in
\* this call, pruning disabled, and at a qualifying slot.
ArchivalDue(finalized, archival_state_appended, prune, state_slot, interval) ==
    finalized /\ ~(archival_state_appended \/ prune)
    /\ ArchivalAppendState(state_slot, interval)

\* Blocks and indices written whether pruning is enabled or not.
WritesBlocksAlways(prune) == TRUE

\* if !self.prune_storage: whether the block, slot-index and state-root index
\* entries of a link are pushed.
WritesBlocks(prune) == ~prune

\* The loop over the chain: the batch it builds. The two flags are
\* checkpoint_state_appended and archival_state_appended.
RECURSIVE AppendLoop(_, _, _, _, _, _)
AppendLoop(chain, prune, interval, store_head_slot, cp_appended, ar_appended) ==
    IF chain = << >> THEN << >>
    ELSE
        LET chain_link == chain[1][1]
            finalized  == chain[1][2]
            state_slot == LinkSlot(chain_link)
            cp == CheckpointDue(finalized, cp_appended, state_slot)
            ar == ArchivalDue(finalized, ar_appended, prune, state_slot, interval)
        IN  (IF WritesBlocks(prune) THEN BlockEntries(chain_link, finalized) ELSE << >>)
            \o (IF finalized /\ WritesBlocks(prune)
                THEN StateRootEntries(chain_link) ELSE << >>)
            \o (IF cp THEN CheckpointEntries(chain_link, store_head_slot) ELSE << >>)
            \o (IF ar
                THEN << serialize(StateByBlockRoot(chain_link.block_root), chain_link.state) >>
                ELSE << >>)
            \o AppendLoop(Tail(chain), prune, interval, store_head_slot,
                          cp_appended \/ cp, ar_appended \/ ar)

\* The batch of one append call.
AppendBatch(d, unfinalized, finalized, prune, interval) ==
    LET chain == AppendChain(unfinalized, finalized)
    IN  AppendLoop(chain, prune, interval, StoreHeadSlot(d, chain), FALSE, FALSE)

\* AppendedBlockSlots returned by append.
AppendedBlockSlots(unfinalized, finalized, prune) ==
    LET chain == IF prune THEN << >> ELSE AppendChain(unfinalized, finalized)
        slots(f) == [i \in 1..Len(SelectSeq(chain, LAMBDA p : p[2] = f)) |->
                        LinkSlot(SelectSeq(chain, LAMBDA p : p[2] = f)[i][1])]
    IN  [finalized |-> slots(TRUE), unfinalized |-> slots(FALSE)]

-----------------------------------------------------------------------------
\* Local recovery. An OptionalStateStorage, or the error the recovery ended
\* with, is a record; `roots` stands for the lazy UnfinalizedBlocks iterator
\* that blocks_by_roots builds from them.

StorageNone == [kind |-> "None", state |-> None, block |-> None, roots |-> << >>, err |-> ""]
StorageErr(e) == [StorageNone EXCEPT !.kind = "Err", !.err = e]
StorageUnfinalizedOnly(roots) == [StorageNone EXCEPT !.kind = "UnfinalizedOnly", !.roots = roots]
StorageFull(state, block, roots) ==
    [StorageNone EXCEPT !.kind = "Full", !.state = Some(state), !.block = Some(block),
                        !.roots = roots]

\* The loop of load_state_by_iteration over the keys of the descending scan.
RECURSIVE IterateDescending(_, _, _)
IterateDescending(d, keys, block_roots) ==
    IF keys = << >> \/ ~has_prefix(to_string(Head(keys)), "r")
    THEN IF block_roots = << >> THEN StorageNone ELSE StorageUnfinalizedOnly(block_roots)
    ELSE
        LET block_root == d[Head(keys)]
            state == state_by_block_root(d, block_root)
            block == finalized_block_by_root(d, block_root)
        IN  IF IsSome(state)
            THEN IF ~is_epoch_start(Unwrap(state).slot)
                 THEN StorageErr("PersistedSlotCannotContainAnchor")
                 ELSE IF ~IsSome(block)
                 THEN StorageErr("BlockNotFound")
                 ELSE StorageFull(Unwrap(state), Unwrap(block), block_roots)
            ELSE IterateDescending(d, Tail(keys), Append(block_roots, block_root))

\* Storage::load_state_by_iteration
load_state_by_iteration(d, start_from_slot) ==
    IterateDescending(
        d, iterator_descending(d, to_string(BlockRootBySlot(start_from_slot))), << >>)

\* The values of all the keys of the ascending scan, whatever their family.
TakeAllValues(d, keys) == [i \in 1..Len(keys) |-> d[keys[i]]]

\* The block roots of the ascending scan, taken while the key is a BlockRootBySlot.
RECURSIVE TakeWhileBlockRoot(_, _)
TakeWhileBlockRoot(d, keys) ==
    IF keys = << >> \/ ~has_prefix(to_string(Head(keys)), "r") THEN << >>
    ELSE <<d[Head(keys)]>> \o TakeWhileBlockRoot(d, Tail(keys))

\* The recovery from the checkpoint with the block root of the pair not compared.
load_state_and_blocks_unchecked(d) ==
    IF ~IsSome(load_state_checkpoint(d)) THEN StorageNone
    ELSE
        LET checkpoint == Unwrap(load_state_checkpoint(d))
            block_checkpoint == load_block_checkpoint(d)
            stored == finalized_block_by_root(d, checkpoint.block_root)
        IN  IF ~IsSome(block_checkpoint) /\ ~IsSome(stored)
            THEN StorageErr("BlockNotFound")
            ELSE IF ~is_epoch_start(checkpoint.state.slot)
            THEN StorageErr("PersistedSlotCannotContainAnchor")
            ELSE StorageFull(
                    checkpoint.state,
                    IF IsSome(block_checkpoint)
                    THEN Unwrap(block_checkpoint).block
                    ELSE Unwrap(stored),
                    << >>)

\* Storage::load_state_and_blocks_from_checkpoint
load_state_and_blocks_from_checkpoint(d) ==
    IF ~IsSome(load_state_checkpoint(d)) THEN StorageNone
    ELSE
        LET checkpoint == Unwrap(load_state_checkpoint(d))
            block_checkpoint == load_block_checkpoint(d)
            stored == finalized_block_by_root(d, checkpoint.block_root)
            roots == TakeWhileBlockRoot(
                d, iterator_ascending(d, to_string(BlockRootBySlot(checkpoint.state.slot + 1))))
        IN  IF IsSome(block_checkpoint)
               /\ checkpoint.block_root # hash_tree_root(Unwrap(block_checkpoint).block)
            THEN StorageErr("CheckpointBlockRootMismatch")
            ELSE IF ~IsSome(block_checkpoint) /\ ~IsSome(stored)
            THEN StorageErr("BlockNotFound")
            ELSE IF ~is_epoch_start(checkpoint.state.slot)
            THEN StorageErr("PersistedSlotCannotContainAnchor")
            ELSE StorageFull(
                    checkpoint.state,
                    IF IsSome(block_checkpoint)
                    THEN Unwrap(block_checkpoint).block
                    ELSE Unwrap(stored),
                    roots)

\* Storage::load_latest_state
load_latest_state(d) ==
    LET from_checkpoint == load_state_and_blocks_from_checkpoint(d)
    IN  IF from_checkpoint.kind \in {"Full", "Err"}
        THEN from_checkpoint
        ELSE load_state_by_iteration(d, SLOT_MAX)

-----------------------------------------------------------------------------
\* State reconstruction. A Result<Option<state>> is a record: kind "Some" with
\* the state, "None", or "Err" with the error.

StateSome(state) == [kind |-> "Some", state |-> Some(state), err |-> ""]
StateNone == [kind |-> "None", state |-> None, err |-> ""]
StateErr(e) == [kind |-> "Err", state |-> None, err |-> e]

\* combined::trusted_state_transition(config, state, block): the state is
\* advanced to the block's slot and the block applied; the block must build on
\* the last block applied to the state and be at a later slot than it.
trusted_state_transition(state, block) ==
    IF /\ block.parent_root = state.latest_block_root
       /\ block.slot >= state.slot
       /\ block.slot > BlockTable[state.latest_block_root].slot
    THEN StateSome([slot |-> block.slot, latest_block_root |-> hash_tree_root(block)])
    ELSE StateErr("StateTransition")

\* One item of the iterator of blocks_by_roots.
block_by_root(d, block_root) ==
    IF IsSome(finalized_block_by_root(d, block_root))
    THEN finalized_block_by_root(d, block_root)
    ELSE unfinalized_block_by_root(d, block_root)

\* The replay loop of stored_state over the roots of the lazy block iterator.
RECURSIVE ReplayRoots(_, _, _)
ReplayRoots(d, state, block_roots) ==
    IF block_roots = << >> THEN StateSome(state)
    ELSE LET block == block_by_root(d, Head(block_roots))
         IN  IF ~IsSome(block) THEN StateErr("BlockNotFound")
             ELSE LET next == trusted_state_transition(state, Unwrap(block))
                  IN  IF next.kind = "Err" THEN next
                      ELSE ReplayRoots(d, Unwrap(next.state), Tail(block_roots))

\* if state.slot() < slot { process_slots(state, slot) }
AdvanceTo(result, slot) ==
    IF result.kind = "Some" /\ Unwrap(result.state).slot < slot
    THEN StateSome(process_slots(Unwrap(result.state), slot))
    ELSE result

\* Storage::stored_state
stored_state(d, slot) ==
    LET local == load_state_by_iteration(d, slot)
    IN  CASE local.kind = "Err" -> StateErr(local.err)
          [] local.kind \in {"None", "UnfinalizedOnly"} -> StateNone
          [] OTHER ->
                AdvanceTo(ReplayRoots(d, Unwrap(local.state), Reverse(local.roots)), slot)

\* Storage::block_by_slot: the finalized block indexed at a slot with its root.
block_by_slot(d, slot) ==
    LET block_root == block_root_by_slot(d, slot)
    IN  IF ~IsSome(block_root) THEN None
        ELSE LET block == finalized_block_by_root(d, Unwrap(block_root))
             IN  IF ~IsSome(block) THEN None
                 ELSE Some(<<Unwrap(block), Unwrap(block_root)>>)

\* The keys of a scan up to the first one without the FinalizedBlockByRoot prefix.
RECURSIVE TakeWhileFinalizedBlock(_)
TakeWhileFinalizedBlock(keys) ==
    IF keys = << >> \/ ~has_prefix(to_string(Head(keys)), "b") THEN << >>
    ELSE <<Head(keys)>> \o TakeWhileFinalizedBlock(Tail(keys))

\* Storage::finalized_block_count
finalized_block_count(d) ==
    Len(TakeWhileFinalizedBlock(
            iterator_ascending(d, to_string(FinalizedBlockByRoot(ZERO_ROOT)))))

\* The walk that takes the first persisted state whatever its slot.
RECURSIVE WalkBackAnySlot(_, _, _)
WalkBackAnySlot(d, block_root, blocks) ==
    LET state == state_by_block_root(d, block_root)
        block == block_by_root(d, block_root)
    IN  IF IsSome(state)
        THEN [kind |-> "Found", state |-> state, blocks |-> blocks]
        ELSE IF IsSome(block)
        THEN WalkBackAnySlot(d, Unwrap(block).parent_root, Append(blocks, Unwrap(block)))
        ELSE [kind |-> "None", state |-> None, blocks |-> blocks]

\* The loop of preprocessed_state_post_block: back along parent_root until a
\* persisted state is found; blocks are collected newest first.
RECURSIVE WalkBack(_, _, _)
WalkBack(d, block_root, blocks) ==
    LET state == state_by_block_root(d, block_root)
        block == block_by_root(d, block_root)
    IN  IF IsSome(state)
        THEN IF is_epoch_start(Unwrap(state).slot)
             THEN [kind |-> "Found", state |-> state, blocks |-> blocks]
             ELSE [kind |-> "Err", state |-> None, blocks |-> blocks]
        ELSE IF IsSome(block)
        THEN WalkBack(d, Unwrap(block).parent_root, Append(blocks, Unwrap(block)))
        ELSE [kind |-> "None", state |-> None, blocks |-> blocks]

\* The replay loop of preprocessed_state_post_block over the collected blocks.
RECURSIVE ReplayBlocks(_, _)
ReplayBlocks(state, blocks) ==
    IF blocks = << >> THEN StateSome(state)
    ELSE LET next == trusted_state_transition(state, Head(blocks))
         IN  IF next.kind = "Err" THEN next
             ELSE ReplayBlocks(Unwrap(next.state), Tail(blocks))

\* The collected blocks applied in the order they were collected, newest first.
preprocessed_state_newest_first(d, block_root, slot) ==
    LET found == WalkBack(d, block_root, << >>)
    IN  CASE found.kind = "Err" -> StateErr("PersistedSlotCannotContainAnchor")
          [] found.kind = "None" -> StateNone
          [] OTHER ->
                AdvanceTo(ReplayBlocks(Unwrap(found.state), found.blocks), slot)

\* Storage::preprocessed_state_post_block
preprocessed_state_post_block(d, block_root, slot) ==
    LET found == WalkBack(d, block_root, << >>)
    IN  CASE found.kind = "Err" -> StateErr("PersistedSlotCannotContainAnchor")
          [] found.kind = "None" -> StateNone
          [] OTHER ->
                AdvanceTo(ReplayBlocks(Unwrap(found.state), Reverse(found.blocks)), slot)

-----------------------------------------------------------------------------
\* Storage::load

\* Auto: the local recovery, from the given slot or the latest state.
LocalRecovery(d, state_slot) ==
    IF IsSome(state_slot)
    THEN load_state_by_iteration(d, Unwrap(state_slot))
    ELSE load_latest_state(d)

\* A local recovery whose error is dropped instead of returned.
LocalRecoveryNeverFails(local) == FALSE

\* The `?` on the local recovery of the Auto branch: an Err ends load.
LocalRecoveryFails(local) == local.kind = "Err"

\* Auto: checkpoint sync is attempted only with a URL and no local state
\* (OptionalStateStorage::is_none).
AttemptsRemote(has_url, local) == has_url /\ local.kind = "None"

\* A failed remote fetch that is only logged, whatever the strategy.
FetchFailureNeverFatal(strategy) == FALSE

\* A failed remote fetch that ends load, whatever the strategy.
FetchFailureAlwaysFatal(strategy) == TRUE

\* Whether a failed remote fetch ends load with CheckpointSyncFailed (Remote)
\* or is only logged (Auto).
FetchFailureIsFatal(strategy) == strategy = "Remote"

\* The genesis anchor taken without the unfinalized blocks found locally.
AutoLocalAnchorDropsBlocks(local) ==
    IF local.kind = "Full"
    THEN [block |-> Unwrap(local.block), state |-> Unwrap(local.state), roots |-> local.roots]
    ELSE [block |-> GenesisBlock, state |-> GenesisState, roots |-> << >>]

\* Auto: the anchor and the unfinalized blocks taken from the local recovery,
\* or from the genesis provider.
AutoLocalAnchor(local) ==
    IF local.kind = "Full"
    THEN [block |-> Unwrap(local.block), state |-> Unwrap(local.state), roots |-> local.roots]
    ELSE [block |-> GenesisBlock, state |-> GenesisState, roots |-> local.roots]

\* The anchor committed by two put_batch calls of two entries each.
AnchorBatchesSplit(anchor_block, anchor_state) ==
    LET anchor_slot == anchor_block.slot
        anchor_block_root == hash_tree_root(anchor_block)
        anchor_state_root == anchor_block.state_root
    IN  << << serialize(FinalizedBlockByRoot(anchor_block_root), anchor_block),
              serialize(BlockRootBySlot(anchor_slot), anchor_block_root) >>,
           << serialize(SlotByStateRoot(anchor_state_root), anchor_slot),
              serialize(StateByBlockRoot(anchor_block_root), anchor_state) >> >>

\* The anchor committed together with a StateCheckpoint for it.
AnchorBatchesWithCheckpoint(anchor_block, anchor_state) ==
    LET anchor_slot == anchor_block.slot
        anchor_block_root == hash_tree_root(anchor_block)
        anchor_state_root == anchor_block.state_root
    IN  << << serialize(FinalizedBlockByRoot(anchor_block_root), anchor_block),
              serialize(BlockRootBySlot(anchor_slot), anchor_block_root),
              serialize(SlotByStateRoot(anchor_state_root), anchor_slot),
              serialize(StateByBlockRoot(anchor_block_root), anchor_state),
              serialize(StateCheckpointKEY,
                        [block_root |-> anchor_block_root,
                         head_slot  |-> anchor_slot,
                         state      |-> anchor_state]) >> >>

\* The put_batch calls that commit the anchor: one batch of four entries.
AnchorBatches(anchor_block, anchor_state) ==
    LET anchor_slot == anchor_block.slot
        anchor_block_root == hash_tree_root(anchor_block)
        anchor_state_root == anchor_block.state_root
    IN  << << serialize(FinalizedBlockByRoot(anchor_block_root), anchor_block),
              serialize(BlockRootBySlot(anchor_slot), anchor_block_root),
              serialize(SlotByStateRoot(anchor_state_root), anchor_slot),
              serialize(StateByBlockRoot(anchor_block_root), anchor_state) >> >>

\* The locals of a load that is not running.
NoLoad ==
    [strategy |-> "", local |-> StorageNone, anchor |-> None, roots |-> << >>,
     loaded_from_remote |-> FALSE, batches |-> << >>, pre |-> EmptyDb, committed |-> 0,
     fetch |-> "", has_url |-> FALSE]

\* The record of an operation that has not happened.
NoRet ==
    [op |-> "", status |-> "", err |-> "", pre |-> EmptyDb, strategy |-> "",
     anchor |-> None, roots |-> << >>, loaded_from_remote |-> FALSE, committed |-> 0,
     fetch |-> "", unfinalized |-> << >>, finalized |-> << >>,
     slots |-> [finalized |-> << >>, unfinalized |-> << >>],
     has_url |-> FALSE, local |-> StorageNone]

\* The record of the load described by l, ending with the given status.
LoadRet(l, status, err) ==
    [NoRet EXCEPT !.op = "load", !.status = status, !.err = err, !.pre = l.pre,
                  !.strategy = l.strategy, !.anchor = l.anchor, !.roots = l.roots,
                  !.loaded_from_remote = l.loaded_from_remote, !.committed = l.committed,
                  !.fetch = l.fetch, !.has_url = l.has_url, !.local = l.local]

\* The locals of a load that has chosen its anchor and is about to commit it.
Chosen(l, block, state, roots, remote) ==
    [l EXCEPT !.anchor = Some([block |-> block, state |-> state]), !.roots = roots,
              !.loaded_from_remote = remote, !.batches = AnchorBatches(block, state)]

\* The states a caller or a remote endpoint may pair with a block: its
\* post-state, as it is or advanced to the next epoch start.
AnchorStates(r) ==
    { PostState(r),
      process_slots(PostState(r),
                    compute_start_slot_at_epoch(
                        epoch_at_slot(BlockTable[r].slot + SLOTS_PER_EPOCH - 1))) }

AnchorInputs ==
    UNION {{[block |-> BlockTable[r], state |-> st] : st \in AnchorStates(r)} : r \in Roots}

StateSlotInputs == {None, Some(1)}

\* load(client, StateLoadStrategy::Anchor { block, state })
LoadStartAnchor ==
    \E a \in AnchorInputs :
        /\ pc = "idle" /\ nops < MaxOps
        /\ ld' = Chosen([NoLoad EXCEPT !.strategy = "Anchor", !.pre = db],
                        a.block, a.state, << >>, FALSE)
        /\ pc' = "commit"
        /\ nops' = nops + 1
        /\ UNCHANGED <<db, prune_storage, archival_epoch_interval, ret>>

\* load(client, StateLoadStrategy::Remote { checkpoint_sync_url }), up to the await
LoadStartRemote ==
    /\ pc = "idle" /\ nops < MaxOps
    /\ ld' = [NoLoad EXCEPT !.strategy = "Remote", !.pre = db, !.has_url = TRUE,
                            !.fetch = "pending"]
    /\ pc' = "await"
    /\ nops' = nops + 1
    /\ UNCHANGED <<db, prune_storage, archival_epoch_interval, ret>>

\* load(client, StateLoadStrategy::Auto { .. }), up to the await or the commit
LoadStartAuto ==
    \E state_slot \in StateSlotInputs, has_url \in BOOLEAN :
        LET local == LocalRecovery(db, state_slot)
            l == [NoLoad EXCEPT !.strategy = "Auto", !.pre = db, !.local = local,
                                !.has_url = has_url]
            a == AutoLocalAnchor(local)
        IN  /\ pc = "idle" /\ nops < MaxOps
            /\ nops' = nops + 1
            /\ UNCHANGED <<db, prune_storage, archival_epoch_interval>>
            /\ IF LocalRecoveryFails(local)
               THEN pc' = "idle" /\ ld' = NoLoad /\ ret' = LoadRet(l, "err", local.err)
               ELSE IF AttemptsRemote(has_url, local)
               THEN pc' = "await" /\ ld' = [l EXCEPT !.fetch = "pending"] /\ ret' = ret
               ELSE /\ pc' = "commit"
                    /\ ld' = Chosen(l, a.block, a.state, a.roots, FALSE)
                    /\ ret' = ret

\* checkpoint_sync::load_finalized_from_remote returns Ok
FetchOk ==
    \E a \in AnchorInputs :
        /\ pc = "await"
        /\ ld' = Chosen([ld EXCEPT !.fetch = "ok"], a.block, a.state, << >>, TRUE)
        /\ pc' = "commit"
        /\ UNCHANGED <<db, prune_storage, archival_epoch_interval, ret, nops>>

\* checkpoint_sync::load_finalized_from_remote returns Err
FetchFail ==
    /\ pc = "await"
    /\ UNCHANGED <<db, prune_storage, archival_epoch_interval, nops>>
    /\ LET l == [ld EXCEPT !.fetch = "failed"]
           a == AutoLocalAnchor(ld.local)
       IN  IF FetchFailureIsFatal(ld.strategy)
           THEN /\ pc' = "idle" /\ ld' = NoLoad
                /\ ret' = LoadRet(l, "err", "CheckpointSyncFailed")
           ELSE /\ pc' = "commit"
                /\ ld' = Chosen(l, a.block, a.state, a.roots, FALSE)
                /\ ret' = ret

\* self.database.put_batch(..)? returns Ok; load returns after the last one
LoadCommit ==
    /\ pc = "commit"
    /\ db' = PutBatch(db, Head(ld.batches))
    /\ UNCHANGED <<prune_storage, archival_epoch_interval, nops>>
    /\ LET l == [ld EXCEPT !.batches = Tail(ld.batches), !.committed = ld.committed + 1]
       IN  IF l.batches = << >>
           THEN pc' = "idle" /\ ld' = NoLoad /\ ret' = LoadRet(l, "ok", "")
           ELSE pc' = "commit" /\ ld' = l /\ ret' = ret

\* self.database.put_batch(..)? returns Err: nothing of the batch is visible
LoadCommitFail ==
    /\ pc = "commit"
    /\ pc' = "idle" /\ ld' = NoLoad /\ ret' = LoadRet(ld, "err", "Database")
    /\ UNCHANGED <<db, prune_storage, archival_epoch_interval, nops>>

\* The process stops, or the load future is dropped, while load is running.
Crash ==
    /\ pc # "idle"
    /\ pc' = "idle" /\ ld' = NoLoad /\ ret' = LoadRet(ld, "crash", "")
    /\ UNCHANGED <<db, prune_storage, archival_epoch_interval, nops>>

-----------------------------------------------------------------------------
\* Storage::append as called by the fork-choice control loop.

\* Sequences over S of at most n elements.
SeqsUpTo(S, n) == UNION {[1..k -> S] : k \in 0..n}

UnfinalizedLinks == {Link(r, TRUE) : r \in Roots} \cup {Link(r, FALSE) : r \in ForkRoots}

\* Unfinalized links arrive in forward order, each block once.
UnfinalizedInputs ==
    {u \in SeqsUpTo(UnfinalizedLinks, MaxUnfinalized) :
        \A i, j \in 1..Len(u) :
            i < j => LinkSlot(u[i]) <= LinkSlot(u[j]) /\ u[i].block_root # u[j].block_root}

\* Finalized links are blocks of the canonical chain, in slot order, presented
\* oldest first or newest first.
FinalizedInputs ==
    {f \in SeqsUpTo({Link(r, TRUE) : r \in CanonicalRoots}, MaxFinalized) :
        \/ \A i, j \in 1..Len(f) : i < j => LinkSlot(f[i]) < LinkSlot(f[j])
        \/ \A i, j \in 1..Len(f) : i < j => LinkSlot(f[i]) > LinkSlot(f[j])}

\* A block is given as finalized or as unfinalized, not both.
Disjoint(unfinalized, finalized) ==
    \A i \in 1..Len(unfinalized), j \in 1..Len(finalized) :
        unfinalized[i].block_root # finalized[j].block_root

AppendCall ==
    \E unfinalized \in UnfinalizedInputs, finalized \in FinalizedInputs :
        /\ pc = "idle" /\ nops < MaxOps
        /\ Disjoint(unfinalized, finalized)
        /\ db' = PutBatch(db, AppendBatch(db, unfinalized, finalized,
                                          prune_storage, archival_epoch_interval))
        /\ ret' = [NoRet EXCEPT !.op = "append", !.status = "ok", !.pre = db,
                                !.unfinalized = unfinalized, !.finalized = finalized,
                                !.slots = AppendedBlockSlots(unfinalized, finalized,
                                                             prune_storage)]
        /\ nops' = nops + 1
        /\ UNCHANGED <<prune_storage, archival_epoch_interval, pc, ld>>

-----------------------------------------------------------------------------

\* Storage::new on an empty database.
Init ==
    /\ db = EmptyDb
    /\ prune_storage \in BOOLEAN
    /\ archival_epoch_interval \in ArchivalIntervals
    /\ pc = "idle"
    /\ ld = NoLoad
    /\ ret = NoRet
    /\ nops = 0

Next ==
    \/ LoadStartAnchor
    \/ LoadStartRemote
    \/ LoadStartAuto
    \/ FetchOk
    \/ FetchFail
    \/ LoadCommit
    \/ LoadCommitFail
    \/ Crash
    \/ AppendCall

Spec == Init /\ [][Next]_vars

-----------------------------------------------------------------------------
\* The scenario of finalized links at slots 32, 64, 96 and 128 with
\* archival_epoch_interval = 4 and pruning disabled, appended by any sequence of
\* append calls, each given some of the links not yet stored, oldest first or
\* newest first.

InitS2 ==
    /\ db = EmptyDb
    /\ prune_storage = FALSE
    /\ archival_epoch_interval = 4
    /\ pc = "idle"
    /\ ld = NoLoad
    /\ ret = NoRet
    /\ nops = 0

ScenarioRemaining == {r \in ScenarioRoots : ~contains_key(db, FinalizedBlockByRoot(r))}

\* The links of the given roots in slot order, oldest first.
RECURSIVE OldestFirst(_)
OldestFirst(roots) ==
    IF roots = {} THEN << >>
    ELSE LET r == CHOOSE x \in roots :
                    \A y \in roots : BlockTable[x].slot <= BlockTable[y].slot
         IN  <<Link(r, TRUE)>> \o OldestFirst(roots \ {r})

AppendS2 ==
    \E given \in SUBSET ScenarioRemaining, newest_first \in BOOLEAN :
        LET finalized == IF newest_first THEN Reverse(OldestFirst(given))
                         ELSE OldestFirst(given)
        IN  /\ given # {}
            /\ db' = PutBatch(db, AppendBatch(db, << >>, finalized,
                                              prune_storage, archival_epoch_interval))
            /\ ret' = [NoRet EXCEPT !.op = "append", !.status = "ok", !.pre = db,
                                    !.finalized = finalized,
                                    !.slots = AppendedBlockSlots(<< >>, finalized,
                                                                 prune_storage)]
            /\ nops' = nops + 1
            /\ UNCHANGED <<prune_storage, archival_epoch_interval, pc, ld>>

NextS2 == AppendS2

SpecS2 == InitS2 /\ [][NextS2]_vars

-----------------------------------------------------------------------------
\* Properties of load and append.

\* The load that is running, or else the one that finished last.
LoadInView == pc # "idle" \/ ret.op = "load"
ViewPre == IF pc # "idle" THEN ld.pre ELSE ret.pre
ViewAnchor == IF pc # "idle" THEN ld.anchor ELSE ret.anchor

\* The keys of the four anchor records of anchor a.
AnchorKeys(a) ==
    { FinalizedBlockByRoot(hash_tree_root(a.block)),
      BlockRootBySlot(a.block.slot),
      SlotByStateRoot(a.block.state_root),
      StateByBlockRoot(hash_tree_root(a.block)) }

\* d is pre with exactly the four anchor records of a written.
AnchorCommitted(pre, d, a) ==
    /\ finalized_block_by_root(d, hash_tree_root(a.block)) = Some(a.block)
    /\ block_root_by_slot(d, a.block.slot) = Some(hash_tree_root(a.block))
    /\ slot_by_state_root(d, a.block.state_root) = Some(a.block.slot)
    /\ state_by_block_root(d, hash_tree_root(a.block)) = Some(a.state)
    /\ \A k \in (DOMAIN d \cup DOMAIN pre) \ AnchorKeys(a) : Get(d, k) = Get(pre, k)

\* C1: at every point of a load, a crash included, the database is either the
\* one the load started from or that one with exactly the four anchor records
\* of the load written; after a successful load it is the latter.
C1_AnchorCommitAtomic ==
    LoadInView =>
        /\ \/ db = ViewPre
           \/ IsSome(ViewAnchor) /\ AnchorCommitted(ViewPre, db, Unwrap(ViewAnchor))
        /\ (pc = "idle" /\ ret.status = "ok") =>
               IsSome(ret.anchor) /\ AnchorCommitted(ret.pre, db, Unwrap(ret.anchor))

\* A successful load through the remote endpoint on a database that already
\* held records, which wrote the four anchor records.
C1_Witness ==
    /\ pc = "idle" /\ ret.op = "load" /\ ret.status = "ok" /\ ret.loaded_from_remote
    /\ ret.pre # EmptyDb /\ db # ret.pre
    /\ AnchorCommitted(ret.pre, db, Unwrap(ret.anchor))

\* C2: every state stored under a StateByBlockRoot key is at an epoch start.
C2_StoredStatesEpochAligned ==
    \A k \in DOMAIN db : k[1] = "s" => is_epoch_start(db[k].slot)

\* C3: with pruning disabled, every stored finalized block is what the slot
\* index holds for its slot.
C3_FinalizedBlocksIndexed ==
    ~prune_storage =>
        \A k \in DOMAIN db :
            k[1] = "b" => block_root_by_slot(db, db[k].slot) = Some(k[2])

\* The append that finished last, with nothing done since.
AppendInView == pc = "idle" /\ ret.op = "append" /\ ret.status = "ok"

\* C4: right after an append with pruning disabled, every finalized link given
\* to it is what block_root_by_slot returns for its slot, and its slot is what
\* slot_by_state_root returns for its block's state root.
C4_FinalizedLinksReadBack ==
    (AppendInView /\ ~prune_storage) =>
        \A i \in 1..Len(ret.finalized) :
            LET b == ret.finalized[i]
            IN  /\ block_root_by_slot(db, LinkSlot(b)) = Some(b.block_root)
                /\ slot_by_state_root(db, b.block.state_root) = Some(LinkSlot(b))

\* An append with pruning disabled that was given a valid unfinalized link and
\* a finalized link of another block at the same slot.
C4_Witness ==
    /\ AppendInView /\ ~prune_storage
    /\ \E i \in 1..Len(ret.finalized), j \in 1..Len(ret.unfinalized) :
           /\ LinkSlot(ret.unfinalized[j]) = LinkSlot(ret.finalized[i])
           /\ ret.unfinalized[j].block_root # ret.finalized[i].block_root
           /\ ret.unfinalized[j].valid
           /\ block_root_by_slot(db, LinkSlot(ret.finalized[i]))
                  = Some(ret.finalized[i].block_root)

\* Whether the append in view had a finalized link at an epoch start, which is
\* when it writes the checkpoint pair.
WroteCheckpoint ==
    \E i \in 1..Len(ret.finalized) : is_epoch_start(LinkSlot(ret.finalized[i]))

\* C5: the head_slot of a StateCheckpoint committed by an append is at least
\* the slot of every block in storage at that commit.
C5_HeadSlotCoversPersistedBlocks ==
    (AppendInView /\ WroteCheckpoint) =>
        \A k \in DOMAIN db :
            k[1] \in {"b", "b_nf"} =>
                db[k].slot <= Unwrap(load_state_checkpoint(db)).head_slot

\* The first link an append processes: the first valid unfinalized link, or
\* without one the last finalized link as presented.
FirstProcessed(unfinalized, finalized) ==
    LET valid == SelectSeq(unfinalized, LAMBDA l : l.valid)
    IN  IF valid # << >> THEN valid[1] ELSE finalized[Len(finalized)]

\* C6: checkpoint_state_slot() never decreases from one step to the next, and
\* a head_slot written by an append is the greater of the head_slot stored
\* before and the slot of the first link the append processes.
C6_HeadSlotMonotonic ==
    [][ /\ IsSome(checkpoint_state_slot(db)) =>
              /\ IsSome(checkpoint_state_slot(db'))
              /\ Unwrap(checkpoint_state_slot(db')) >= Unwrap(checkpoint_state_slot(db))
        /\ (ret' # ret /\ ret'.op = "append" /\ WroteCheckpoint') =>
              LET first == LinkSlot(FirstProcessed(ret'.unfinalized, ret'.finalized))
                  before == checkpoint_state_slot(db)
                  after == Unwrap(checkpoint_state_slot(db'))
              IN  /\ after >= first
                  /\ IsSome(before) => after >= Unwrap(before)
                  /\ after = first \/ (IsSome(before) /\ after = Unwrap(before))
      ]_vars

\* An append that wrote the checkpoint over an earlier one, its first link at a
\* lower slot than the head_slot stored before, which was kept.
C6_Witness ==
    /\ AppendInView /\ WroteCheckpoint
    /\ IsSome(checkpoint_state_slot(ret.pre))
    /\ LinkSlot(FirstProcessed(ret.unfinalized, ret.finalized))
           < Unwrap(checkpoint_state_slot(ret.pre))
    /\ checkpoint_state_slot(db) = checkpoint_state_slot(ret.pre)
    /\ load_state_checkpoint(db) # load_state_checkpoint(ret.pre)

\* C7: StateCheckpoint and BlockCheckpoint are present together, and the
\* block_root of the first is the hash tree root of the block of the second.
C7_CheckpointPairConsistent ==
    /\ IsSome(load_state_checkpoint(db)) <=> IsSome(load_block_checkpoint(db))
    /\ IsSome(load_state_checkpoint(db)) =>
           Unwrap(load_state_checkpoint(db)).block_root
               = hash_tree_root(Unwrap(load_block_checkpoint(db)).block)

\* An append that replaced the checkpoint pair of one block by that of another.
C7_Witness ==
    /\ AppendInView
    /\ IsSome(load_state_checkpoint(ret.pre))
    /\ IsSome(load_block_checkpoint(db))
    /\ Unwrap(load_state_checkpoint(db)).block_root
           # Unwrap(load_state_checkpoint(ret.pre)).block_root
    /\ Unwrap(load_block_checkpoint(db)).block
           # Unwrap(load_block_checkpoint(ret.pre)).block

\* C8: after an append that writes the checkpoint pair, the pair is that of
\* the highest-slot finalized epoch-start link persisted so far: no finalized
\* epoch-start link of this append, and no finalized block in storage at an
\* epoch start, has a higher slot than the checkpoint block.
C8_CheckpointIsMostRecent ==
    (AppendInView /\ WroteCheckpoint) =>
        LET cp_slot == Unwrap(load_block_checkpoint(db)).block.slot
        IN  /\ \A i \in 1..Len(ret.finalized) :
                   is_epoch_start(LinkSlot(ret.finalized[i])) =>
                       LinkSlot(ret.finalized[i]) <= cp_slot
            /\ \A k \in DOMAIN db :
                   (k[1] = "b" /\ is_epoch_start(db[k].slot)) => db[k].slot <= cp_slot

-----------------------------------------------------------------------------
\* Blob sidecars: Storage::append_blob_sidecars and
\* Storage::prune_old_blob_sidecars, the latter one database call at a time.

\* The batch of append_blob_sidecars: two entries for each sidecar.
RECURSIVE BlobBatch(_)
BlobBatch(blob_sidecars) ==
    IF blob_sidecars = << >> THEN << >>
    ELSE LET b == Head(blob_sidecars)
         IN  << serialize(BlobSidecarByBlobId(b.block_root, b.index), b),
                serialize(SlotBlobId(b.slot, b.block_root, b.index),
                          BlobIdentifier(b.block_root, b.index)) >>
             \o BlobBatch(Tail(blob_sidecars))

\* The keys of the scan up to the first one without the SlotBlobId prefix.
RECURSIVE TakeWhileSlotBlobId(_)
TakeWhileSlotBlobId(keys) ==
    IF keys = << >> \/ ~has_prefix(to_string(Head(keys)), "i") THEN << >>
    ELSE <<Head(keys)>> \o TakeWhileSlotBlobId(Tail(keys))

\* The scan that stops after the first key.
PruneScanFirstOnly(d, up_to_slot) ==
    LET keys == TakeWhileSlotBlobId(
                    iterator_descending(d, to_string(SlotBlobId(up_to_slot, ZERO_ROOT, 0))))
    IN  IF keys = << >> THEN << >> ELSE <<Head(keys)>>

\* The scan of prune_old_blob_sidecars: the keys it collects, in scan order.
PruneScan(d, up_to_slot) ==
    TakeWhileSlotBlobId(
        iterator_descending(d, to_string(SlotBlobId(up_to_slot, ZERO_ROOT, 0))))

\* blobs_to_remove: the BlobIdentifier values under the scanned keys.
RECURSIVE BlobsToRemove(_, _)
BlobsToRemove(d, keys) ==
    IF keys = << >> THEN << >>
    ELSE <<d[Head(keys)]>> \o BlobsToRemove(d, Tail(keys))

\* The bytes of the scanned keys and, after them, the BlockCheckpoint literal.
KeysToRemoveWithCheckpoint(keys) ==
    [i \in 1..Len(keys) |-> to_string(keys[i])] \o <<to_string(BlockCheckpointKEY)>>

\* keys_to_remove: the bytes of the scanned keys.
RECURSIVE KeysToRemove(_)
KeysToRemove(keys) ==
    IF keys = << >> THEN << >>
    ELSE <<to_string(Head(keys))>> \o KeysToRemove(Tail(keys))

\* The key of the first loop for each blob: blob_id.to_ssz().
RECURSIVE SszKeys(_)
SszKeys(blobs) ==
    IF blobs = << >> THEN << >>
    ELSE <<to_ssz(Head(blobs))>> \o SszKeys(Tail(blobs))

\* The deletes of a sequence of keys, one after the other.
RECURSIVE DeleteAll(_, _)
DeleteAll(d, key_bytes) ==
    IF key_bytes = << >> THEN d
    ELSE DeleteAll(Delete(d, Head(key_bytes)), Tail(key_bytes))

\* prune_old_blob_sidecars run from its first line to its last.
PruneAll(d, up_to_slot) ==
    LET keys == PruneScan(d, up_to_slot)
        blobs == BlobsToRemove(d, keys)
    IN  DeleteAll(DeleteAll(d, SszKeys(blobs)), KeysToRemove(keys))

\* The record of a blob operation that has not happened.
NoBlobRet ==
    [op |-> "", status |-> "", pre |-> EmptyDb, up_to_slot |-> 0, origin |-> EmptyDb,
     prev |-> "", blob_ids |-> << >>, keys |-> << >>]

\* Sequences of at most MaxSidecars different sidecars.
BlobSidecarInputs ==
    {q \in SeqsUpTo(BlobSidecars, MaxSidecars) :
        q # << >> /\ \A i, j \in 1..Len(q) : i < j => q[i] # q[j]}

PruneSlots == {10, 11, 12}

\* A database with no block, with the genesis anchor committed, or with the
\* genesis anchor committed and then appended as a finalized link, which adds
\* the checkpoint pair.
InitBlobs ==
    /\ db \in {EmptyDb,
               PutBatch(EmptyDb, AnchorBatches(GenesisBlock, GenesisState)[1]),
               LET loaded == PutBatch(EmptyDb, AnchorBatches(GenesisBlock, GenesisState)[1])
               IN  PutBatch(loaded, AppendBatch(loaded, << >>, <<Link(1, TRUE)>>, FALSE, 1))}
    /\ prune_storage = FALSE
    /\ archival_epoch_interval = 1
    /\ pc = "idle"
    /\ ld = NoLoad
    /\ ret = NoBlobRet
    /\ nops = 0

\* append_blob_sidecars(blob_sidecars)
AppendBlobSidecars ==
    \E blob_sidecars \in BlobSidecarInputs :
        /\ pc = "idle" /\ nops < MaxBlobOps
        /\ db' = PutBatch(db, BlobBatch(blob_sidecars))
        /\ ret' = [NoBlobRet EXCEPT
                      !.op = "append_blob_sidecars", !.status = "ok", !.pre = db,
                      !.blob_ids = [i \in 1..Len(blob_sidecars) |->
                                       BlobIdentifier(blob_sidecars[i].block_root,
                                                      blob_sidecars[i].index)]]
        /\ nops' = nops + 1
        /\ UNCHANGED <<prune_storage, archival_epoch_interval, pc, ld>>

\* prune_old_blob_sidecars(up_to_slot): the scan that fills the two vectors.
\* `prev` is how a prune with the same up_to_slot ended when it was the last
\* operation, and `origin` the database the first of such a row of stopped
\* runs started from.
PruneStart ==
    \E up_to_slot \in PruneSlots :
        LET keys == PruneScan(db, up_to_slot)
            prev == IF ret.op = "prune" /\ ret.up_to_slot = up_to_slot
                    THEN ret.status ELSE ""
        IN  /\ pc = "idle" /\ nops < MaxBlobOps
            /\ pc' = "prune"
            /\ ld' = [up_to_slot |-> up_to_slot,
                      blobs_to_remove |-> BlobsToRemove(db, keys),
                      keys_to_remove |-> KeysToRemove(keys),
                      blob_ids |-> BlobsToRemove(db, keys),
                      keys |-> KeysToRemove(keys),
                      pre |-> db,
                      origin |-> IF prev = "crash" THEN ret.origin ELSE db,
                      prev |-> prev]
            /\ nops' = nops + 1
            /\ UNCHANGED <<db, prune_storage, archival_epoch_interval, ret>>

\* One self.database.delete(..)? of the two loops.
PruneDelete ==
    /\ pc = "prune"
    /\ \/ /\ ld.blobs_to_remove # << >>
          /\ db' = Delete(db, to_ssz(Head(ld.blobs_to_remove)))
          /\ ld' = [ld EXCEPT !.blobs_to_remove = Tail(ld.blobs_to_remove)]
       \/ /\ ld.blobs_to_remove = << >> /\ ld.keys_to_remove # << >>
          /\ db' = Delete(db, Head(ld.keys_to_remove))
          /\ ld' = [ld EXCEPT !.keys_to_remove = Tail(ld.keys_to_remove)]
    /\ UNCHANGED <<prune_storage, archival_epoch_interval, pc, ret, nops>>

\* The record of the prune described by l, ending with the given status.
PruneRet(l, status) ==
    [NoBlobRet EXCEPT !.op = "prune", !.status = status, !.pre = l.pre,
                      !.up_to_slot = l.up_to_slot, !.origin = l.origin, !.prev = l.prev,
                      !.blob_ids = l.blob_ids, !.keys = l.keys]

\* Ok(()) after the last delete.
PruneReturn ==
    /\ pc = "prune" /\ ld.blobs_to_remove = << >> /\ ld.keys_to_remove = << >>
    /\ pc' = "idle" /\ ld' = NoLoad /\ ret' = PruneRet(ld, "ok")
    /\ UNCHANGED <<db, prune_storage, archival_epoch_interval, nops>>

\* The process stops, or a delete fails, between two database calls.
PruneCrash ==
    /\ pc = "prune"
    /\ pc' = "idle" /\ ld' = NoLoad /\ ret' = PruneRet(ld, "crash")
    /\ UNCHANGED <<db, prune_storage, archival_epoch_interval, nops>>

NextBlobs ==
    \/ AppendBlobSidecars
    \/ PruneStart
    \/ PruneDelete
    \/ PruneReturn
    \/ PruneCrash

SpecBlobs == InitBlobs /\ [][NextBlobs]_vars

-----------------------------------------------------------------------------
\* load_state_and_blocks_from_checkpoint applied to databases holding any
\* combination of a StateCheckpoint, a BlockCheckpoint and the finalized block
\* the StateCheckpoint names, as left by any writer of the schema.

CheckpointRoots == {1, 3, 5}

\* The databases: the entries chosen, written over the empty database.
CheckpointDbs ==
    { PutBatch(EmptyDb,
        (IF has_state
         THEN << serialize(StateCheckpointKEY,
                           [block_root |-> r, head_slot |-> BlockTable[r].slot,
                            state |-> PostState(st)]) >>
         ELSE << >>)
        \o (IF bc = ZERO_ROOT THEN << >>
            ELSE << serialize(BlockCheckpointKEY, [block |-> BlockTable[bc]]) >>)
        \o (IF stored
            THEN << serialize(FinalizedBlockByRoot(r), BlockTable[r]),
                    serialize(BlockRootBySlot(BlockTable[r].slot), r) >>
            ELSE << >>)) :
      has_state \in BOOLEAN, r \in CheckpointRoots, st \in CanonicalRoots,
      bc \in CheckpointRoots \cup {ZERO_ROOT}, stored \in BOOLEAN }

InitCheckpoint ==
    /\ db \in CheckpointDbs
    /\ prune_storage = FALSE
    /\ archival_epoch_interval \in ArchivalIntervals
    /\ pc = "idle"
    /\ ld = NoLoad
    /\ ret = NoRet
    /\ nops = 0

\* self.load_state_and_blocks_from_checkpoint()
RecoverFromCheckpoint ==
    /\ pc = "idle" /\ nops = 0
    /\ ret' = [NoRet EXCEPT !.op = "recover", !.pre = db,
                            !.local = load_state_and_blocks_from_checkpoint(db)]
    /\ nops' = nops + 1
    /\ UNCHANGED <<db, prune_storage, archival_epoch_interval, pc, ld>>

NextCheckpoint == RecoverFromCheckpoint

SpecCheckpoint == InitCheckpoint /\ [][NextCheckpoint]_vars

\* All four links of the scenario have been appended.
S2Done == ScenarioRemaining = {}

\* The only scenario link with a StateByBlockRoot snapshot is the one at slot 128.
S2SnapshotOnlyAt128 ==
    \A r \in ScenarioRoots :
        IsSome(state_by_block_root(db, r)) <=> BlockTable[r].slot = 128

\* The checkpoint pair references the block at the given slot.
S2CheckpointAt(slot) ==
    /\ IsSome(load_state_checkpoint(db)) /\ IsSome(load_block_checkpoint(db))
    /\ BlockTable[Unwrap(load_state_checkpoint(db)).block_root].slot = slot
    /\ Unwrap(load_block_checkpoint(db)).block.slot = slot

\* C9 as stated: once the four links are appended, only the link at slot 128
\* has a snapshot and the checkpoint pair references the link at slot 32.
C9_PairReferencesSlot32 ==
    S2Done => S2SnapshotOnlyAt128 /\ S2CheckpointAt(32)

\* C9 as amended: once the four links are appended, only the link at slot 128
\* has a snapshot, and the checkpoint pair references the first link processed
\* by the last append call, which is the link at slot 32 when one call was given
\* all four links newest first.
C9_ScenarioOutcome ==
    S2Done =>
        /\ S2SnapshotOnlyAt128
        /\ S2CheckpointAt(LinkSlot(FirstProcessed(<< >>, ret.finalized)))
        /\ (Len(ret.finalized) = 4 /\ LinkSlot(ret.finalized[1]) = 128) => S2CheckpointAt(32)

\* One append call given all four links newest first, leaving the pair at 32.
C9_Witness ==
    /\ S2Done /\ Len(ret.finalized) = 4 /\ LinkSlot(ret.finalized[1]) = 128
    /\ S2SnapshotOnlyAt128 /\ S2CheckpointAt(32)

\* C10: a Remote load whose fetch failed returns CheckpointSyncFailed; a load
\* that returned an error, is awaiting the fetch, or stopped before its
\* put_batch has left the database as it found it.
C10_FailedLoadWritesNothing ==
    /\ (pc = "idle" /\ ret.op = "load" /\ ret.strategy = "Remote" /\ ret.fetch = "failed") =>
           ret.status = "err" /\ ret.err = "CheckpointSyncFailed" /\ db = ret.pre
    /\ (pc = "idle" /\ ret.op = "load" /\ ret.status = "err") => db = ret.pre
    /\ (pc = "idle" /\ ret.op = "load" /\ ret.status = "crash" /\ ret.committed = 0) =>
           db = ret.pre
    /\ (pc # "idle" /\ ld.committed = 0) => db = ld.pre

\* A Remote load on a database that held records, ended by a failed fetch.
C10_Witness ==
    /\ pc = "idle" /\ ret.op = "load" /\ ret.strategy = "Remote" /\ ret.fetch = "failed"
    /\ ret.err = "CheckpointSyncFailed"
    /\ ret.pre # EmptyDb /\ db = ret.pre

\* The Auto load in view: the one running, or else the one that finished last.
AutoInView ==
    \/ pc # "idle" /\ ld.strategy = "Auto"
    \/ pc = "idle" /\ ret.op = "load" /\ ret.strategy = "Auto"
ViewLoad == IF pc # "idle" THEN ld ELSE ret

\* Whether the load in view has reached the remote fetch.
ViewFetched == ViewLoad.fetch # ""

\* C11: an Auto load given a checkpoint URL reaches the remote fetch exactly
\* when local recovery returned anything other than a full triple; with a full
\* triple it is not fetched, the anchor is the local one and loaded_from_remote
\* is false.
C11_RemoteIffNoLocalState ==
    (AutoInView /\ ViewLoad.has_url /\ ViewLoad.local.kind # "Err") =>
        /\ ViewFetched <=> ViewLoad.local.kind # "Full"
        /\ (ViewLoad.local.kind = "Full" /\ IsSome(ViewLoad.anchor)) =>
               /\ ~ViewLoad.loaded_from_remote
               /\ Unwrap(ViewLoad.anchor).block = Unwrap(ViewLoad.local.block)
               /\ Unwrap(ViewLoad.anchor).state = Unwrap(ViewLoad.local.state)

\* The anchor of the genesis provider.
GenesisAnchor == [block |-> GenesisBlock, state |-> GenesisState]

\* How a load that has chosen its anchor can end: with the anchor committed,
\* with the put_batch refused, or stopped.
CommitOutcome ==
    pc = "idle" =>
        \/ ret.status = "ok" /\ AnchorCommitted(ret.pre, db, Unwrap(ret.anchor))
        \/ ret.status = "err" /\ ret.err = "Database" /\ db = ret.pre
        \/ ret.status = "crash"

\* C12: an Auto load whose local recovery found nothing and whose remote fetch
\* failed goes on to anchor on the genesis block and state with no unfinalized
\* blocks and loaded_from_remote = false, and commits that anchor.
C12_AutoFallsBackToGenesis ==
    (AutoInView /\ ViewLoad.local.kind = "None" /\ ViewLoad.fetch = "failed") =>
        /\ ViewLoad.anchor = Some(GenesisAnchor)
        /\ ViewLoad.roots = << >>
        /\ ~ViewLoad.loaded_from_remote
        /\ CommitOutcome

\* An Auto load on an empty database whose fetch failed and which returned the
\* genesis anchor, committed.
C12_Witness ==
    /\ pc = "idle" /\ ret.op = "load" /\ ret.strategy = "Auto" /\ ret.status = "ok"
    /\ ret.local.kind = "None" /\ ret.fetch = "failed"
    /\ ret.anchor = Some(GenesisAnchor) /\ ~ret.loaded_from_remote
    /\ AnchorCommitted(ret.pre, db, GenesisAnchor)

\* The roots under the BlockRootBySlot keys of d.
IndexedRoots(d) == {d[k] : k \in {x \in DOMAIN d : x[1] = "r"}}

\* C13: an Auto load whose local recovery found indexed blocks but no state
\* anchors on the genesis block and state and returns the blocks found, with
\* loaded_from_remote = false; a load whose remote fetch succeeded returns no
\* unfinalized blocks and loaded_from_remote = true.
C13_UnfinalizedOnlyKeepsLocalBlocks ==
    /\ (AutoInView /\ ViewLoad.local.kind = "UnfinalizedOnly") =>
           /\ ViewLoad.anchor = Some(GenesisAnchor)
           /\ ViewLoad.roots = ViewLoad.local.roots
           /\ ViewLoad.roots # << >>
           /\ {ViewLoad.roots[i] : i \in 1..Len(ViewLoad.roots)} \subseteq IndexedRoots(ViewLoad.pre)
           /\ ~ViewLoad.loaded_from_remote
    /\ (LoadInView /\ ViewLoad.fetch = "ok") =>
           /\ IsSome(ViewLoad.anchor)
           /\ ViewLoad.roots = << >>
           /\ ViewLoad.loaded_from_remote

\* An Auto load that found two indexed blocks and no state, and returned the
\* genesis anchor with both blocks.
C13_Witness ==
    /\ pc = "idle" /\ ret.op = "load" /\ ret.strategy = "Auto" /\ ret.status = "ok"
    /\ ret.local.kind = "UnfinalizedOnly"
    /\ Len(ret.roots) = 2 /\ ret.roots = ret.local.roots
    /\ ret.anchor = Some(GenesisAnchor)

\* A successful Anchor load of a block and state at slot 0 on a fresh instance.
FreshAnchorLoad ==
    /\ pc = "idle" /\ ret.op = "load" /\ ret.status = "ok" /\ ret.strategy = "Anchor"
    /\ ret.pre = EmptyDb
    /\ Unwrap(ret.anchor).block.slot = 0 /\ Unwrap(ret.anchor).state.slot = 0

\* C14: a load leaves the StateCheckpoint and BlockCheckpoint records as it
\* found them; after an Anchor load at slot 0 on a fresh instance,
\* block_root_by_slot(0) is the anchor block root, stored_state(0) is the anchor
\* state and checkpoint_state_slot() is None.
C14_LoadLeavesCheckpointAlone ==
    /\ LoadInView =>
           /\ load_state_checkpoint(db) = load_state_checkpoint(ViewPre)
           /\ load_block_checkpoint(db) = load_block_checkpoint(ViewPre)
    /\ FreshAnchorLoad =>
           /\ block_root_by_slot(db, 0) = Some(hash_tree_root(Unwrap(ret.anchor).block))
           /\ stored_state(db, 0) = StateSome(Unwrap(ret.anchor).state)
           /\ checkpoint_state_slot(db) = None

\* The fresh Anchor load at slot 0 has happened and reads back as stated.
C14_Witness ==
    /\ FreshAnchorLoad
    /\ stored_state(db, 0) = StateSome(Unwrap(ret.anchor).state)
    /\ checkpoint_state_slot(db) = None

\* The target slots stored_state is asked for.
TargetSlots == {0, 1, 2, 31, 32, 33}

\* The BlockRootBySlot keys at or below target whose root has a persisted state.
SnapshotKeys(d, target) ==
    {k \in DOMAIN d : k[1] = "r" /\ k[2] <= target /\ IsSome(state_by_block_root(d, d[k]))}

\* Among them the one with the greatest slot.
GreatestSnapshotKey(d, target) ==
    CHOOSE k \in SnapshotKeys(d, target) : \A j \in SnapshotKeys(d, target) : j[2] <= k[2]

\* The indexed roots above the given key and at or below target, oldest first.
RECURSIVE RootsBetween(_, _, _)
RootsBetween(d, from, target) ==
    IF from >= target THEN << >>
    ELSE (IF BlockRootBySlot(from + 1) \in DOMAIN d
          THEN <<d[BlockRootBySlot(from + 1)]>> ELSE << >>)
         \o RootsBetween(d, from + 1, target)

\* C15: for every target slot, a state returned by stored_state(target) is the
\* persisted snapshot of the indexed root with the greatest slot at or below
\* target, with the indexed blocks after it applied, and its slot is target;
\* stored_state(target) is None when no indexed root at or below target has a
\* persisted state.
C15_StoredStateFromGreatestSnapshot ==
    \A target \in TargetSlots :
        LET result == stored_state(db, target)
        IN  /\ result.kind = "Some" =>
                   /\ SnapshotKeys(db, target) # {}
                   /\ LET k == GreatestSnapshotKey(db, target)
                          snapshot == Unwrap(state_by_block_root(db, db[k]))
                      IN  result = AdvanceTo(
                              ReplayRoots(db, snapshot, RootsBetween(db, k[2], target)),
                              target)
                   /\ Unwrap(result.state).slot = target
            /\ SnapshotKeys(db, target) = {} => result.kind = "None"

\* The roots of the finalized blocks of d at or below slot.
FinalizedRootsUpTo(d, slot) ==
    {k[2] : k \in {x \in DOMAIN d : x[1] = "b" /\ d[x].slot <= slot}}

\* The roots of the finalized blocks of d that have a persisted state.
ArchivedRoots(d) ==
    {r \in FinalizedRootsUpTo(d, SLOT_MAX) : IsSome(state_by_block_root(d, r))}

\* Whether slot lies strictly between two successive archival snapshots.
BetweenSnapshots(d, slot) ==
    /\ \E r \in ArchivedRoots(d) : BlockTable[r].slot < slot
    /\ \E r \in ArchivedRoots(d) : BlockTable[r].slot > slot
    /\ \A r \in ArchivedRoots(d) : BlockTable[r].slot # slot

\* The roots of the latest finalized blocks at or below slot.
LatestFinalizedRoots(d, slot) ==
    {r \in FinalizedRootsUpTo(d, slot) :
        \A q \in FinalizedRootsUpTo(d, slot) : BlockTable[q].slot <= BlockTable[r].slot}

\* C16: for every slot s strictly between two successive archival snapshots
\* of the finalized chain, stored_state(s) and preprocessed_state_post_block of
\* the latest finalized block at or below s give the same result.
C16_ReconstructionsAgree ==
    \A s \in TargetSlots :
        BetweenSnapshots(db, s) =>
            \A r \in LatestFinalizedRoots(db, s) :
                stored_state(db, s) = preprocessed_state_post_block(db, r, s)

\* C17: load_state_and_blocks_from_checkpoint on a database whose
\* StateCheckpoint names another root than that of the BlockCheckpoint block
\* fails with CheckpointBlockRootMismatch and gives no anchor; without a
\* BlockCheckpoint it takes the block from FinalizedBlockByRoot(block_root) and
\* fails with BlockNotFound when that is absent too.
C17_CheckpointMismatchRejected ==
    ret.op = "recover" =>
        LET sc == load_state_checkpoint(ret.pre)
            bc == load_block_checkpoint(ret.pre)
            stored == finalized_block_by_root(ret.pre, Unwrap(sc).block_root)
        IN  /\ (IsSome(sc) /\ IsSome(bc)
                 /\ Unwrap(sc).block_root # hash_tree_root(Unwrap(bc).block)) =>
                   /\ ret.local.kind = "Err"
                   /\ ret.local.err = "CheckpointBlockRootMismatch"
                   /\ ret.local.state = None /\ ret.local.block = None
            /\ (IsSome(sc) /\ ~IsSome(bc) /\ ~IsSome(stored)) =>
                   ret.local.kind = "Err" /\ ret.local.err = "BlockNotFound"
            /\ (IsSome(sc) /\ ~IsSome(bc) /\ IsSome(stored)) =>
                   /\ ret.local.kind = "Full" => ret.local.block = stored
                   /\ ret.local.kind = "Err" =>
                          ret.local.err = "PersistedSlotCannotContainAnchor"
                   /\ ret.local.kind \in {"Full", "Err"}

\* The recovery ran on a mismatched pair whose state is at an epoch start and
\* whose block is also stored as finalized, and failed with the mismatch.
C17_Witness ==
    /\ ret.op = "recover"
    /\ IsSome(load_state_checkpoint(ret.pre)) /\ IsSome(load_block_checkpoint(ret.pre))
    /\ Unwrap(load_state_checkpoint(ret.pre)).block_root
           # hash_tree_root(Unwrap(load_block_checkpoint(ret.pre)).block)
    /\ is_epoch_start(Unwrap(load_state_checkpoint(ret.pre)).state.slot)
    /\ IsSome(finalized_block_by_root(
                  ret.pre, Unwrap(load_state_checkpoint(ret.pre)).block_root))
    /\ ret.local.err = "CheckpointBlockRootMismatch"

\* A prune_old_blob_sidecars that has returned Ok, with nothing done since.
PruneDone == pc = "idle" /\ ret.op = "prune" /\ ret.status = "ok"

\* C18: after prune_old_blob_sidecars returns, every sidecar it collected is
\* gone from both families: its SlotBlobId key is no key of the database and
\* blob_sidecar_by_id of its identifier is None.
C18_PrunedFromBothFamilies ==
    PruneDone =>
        \A i \in 1..Len(ret.blob_ids) :
            /\ \A k \in DOMAIN db : to_string(k) # ret.keys[i]
            /\ blob_sidecar_by_id(db, ret.blob_ids[i]) = None

\* C19: after prune_old_blob_sidecars(S) returns, no SlotBlobId entry at a
\* slot at or below S is left and every SlotBlobId entry above S is kept.
C19_NoEntryAtOrBelowSlot ==
    PruneDone =>
        /\ \A k \in DOMAIN db : k[1] = "i" => k[2][1] > ret.up_to_slot
        /\ \A k \in DOMAIN ret.pre :
               (k[1] = "i" /\ k[2][1] > ret.up_to_slot) => k \in DOMAIN db

\* C20: a prune that returns right after a completed prune with the same
\* slot leaves the key set as it found it; a prune that returns after a row of
\* stopped runs with the same slot leaves the key set one uninterrupted run
\* from the database of the first of them would leave.
C20_PruneIdempotentConvergent ==
    PruneDone =>
        /\ DOMAIN db = DOMAIN PruneAll(ret.origin, ret.up_to_slot)
        /\ ret.prev = "ok" => DOMAIN db = DOMAIN ret.pre

\* A prune that completed after a stopped run with the same slot, both having
\* deleted something.
C20_Witness ==
    /\ PruneDone /\ ret.prev = "crash"
    /\ DOMAIN ret.pre # DOMAIN ret.origin
    /\ DOMAIN db # DOMAIN ret.pre

\* C21: every stored BlobSidecarByBlobId(root, index) entry has a
\* SlotBlobId(slot, root, index) entry for some slot, in every state the blob
\* appends and prunes reach, a stopped prune included.
C21_BlobEntryHasSlotEntry ==
    \A k \in DOMAIN db :
        k[1] = "o" =>
            \E j \in DOMAIN db :
                j[1] = "i" /\ j[2][2] = k[2][1] /\ j[2][3] = k[2][2]

-----------------------------------------------------------------------------
\* The order of the encoded keys of one family against the order of their
\* fields: SlotBlobId(slot, root, index) and BlockRootBySlot(slot).

MaxBlobIndex == 11

OrderSlots == {9, 10, 100}
OrderRoots == {0, 21, 256}
OrderIndices == 0..MaxBlobIndex

SlotBlobIdInputs ==
    {SlotBlobId(slot, root, index) :
        slot \in OrderSlots, root \in OrderRoots, index \in OrderIndices}

BlockRootBySlotInputs == {BlockRootBySlot(slot) : slot \in OrderSlots \cup {0, SLOT_MAX}}

\* (slot, root, index) of a before that of b: slot first, then root, then index.
FieldsLess(a, b) ==
    \/ a[1] < b[1]
    \/ a[1] = b[1] /\ a[2] < b[2]
    \/ a[1] = b[1] /\ a[2] = b[2] /\ a[3] < b[3]

InitOrder ==
    /\ db = EmptyDb
    /\ prune_storage = FALSE
    /\ archival_epoch_interval = 1
    /\ pc = "idle"
    /\ ld = NoLoad
    /\ ret = [op |-> "", a |-> << >>, b |-> << >>,
              encoded_less |-> FALSE, fields_less |-> FALSE]
    /\ nops = 0

\* The strings of two SlotBlobId keys compared as the database compares them.
CompareSlotBlobId ==
    \E a, b \in SlotBlobIdInputs :
        /\ ret.op = ""
        /\ ret' = [op |-> "compare", a |-> a, b |-> b,
                   encoded_less |-> BytesLess(Display(a), Display(b)),
                   fields_less |-> FieldsLess(a[2], b[2])]
        /\ UNCHANGED <<db, prune_storage, archival_epoch_interval, pc, ld, nops>>

\* The strings of two BlockRootBySlot keys compared as the database compares them.
CompareBlockRootBySlot ==
    \E a, b \in BlockRootBySlotInputs :
        /\ ret.op = ""
        /\ ret' = [op |-> "compare", a |-> a, b |-> b,
                   encoded_less |-> BytesLess(Display(a), Display(b)),
                   fields_less |-> a[2] < b[2]]
        /\ UNCHANGED <<db, prune_storage, archival_epoch_interval, pc, ld, nops>>

NextOrder ==
    \/ CompareSlotBlobId
    \/ CompareBlockRootBySlot

SpecOrder == InitOrder /\ [][NextOrder]_vars

\* C22: within a family the encoded keys order exactly as the fields do.
C22_EncodedOrderIsFieldOrder ==
    ret.op = "compare" => (ret.encoded_less <=> ret.fields_less)

-----------------------------------------------------------------------------
\* Lookups that consult the in-memory fork-choice store before the database:
\* block_root_by_slot_with_store, genesis_block_root and dependent_root.
\* The store is the set of block roots of its chain links.

\* Preset::SlotsPerHistoricalRoot (mainnet)
SLOTS_PER_HISTORICAL_ROOT == 8192

\* Store::chain_link_before_or_at(slot): the link of the store's chain with
\* the greatest slot at or before `slot`.
chain_link_before_or_at(store, slot) ==
    LET at_or_before == {r \in store : BlockTable[r].slot <= slot}
    IN  IF at_or_before = {} THEN None
        ELSE Some(Link(CHOOSE r \in at_or_before :
                           \A q \in at_or_before : BlockTable[q].slot <= BlockTable[r].slot,
                       TRUE))

block_root_by_slot_with_store(d, store, slot) ==
    LET found == chain_link_before_or_at(store, slot)
    IN  IF IsSome(found)
        THEN LET chain_link == Unwrap(found)
                 slot_matches == LinkSlot(chain_link) = slot
             IN  IF slot_matches THEN Some(chain_link.block_root) ELSE None
        ELSE block_root_by_slot(d, slot)

\* Result<H256>: Ok(root), or Err(err) with the contexts attached on the way up.
RootOk(root) == [kind |-> "Ok", root |-> root, err |-> "", context |-> ""]
RootErr(e) == [kind |-> "Err", root |-> ZERO_ROOT, err |-> e, context |-> ""]

\* .context(c) on a Result
WithContext(result, c) ==
    IF result.kind = "Err" THEN [result EXCEPT !.context = c] ELSE result

genesis_block_root(d, store) ==
    LET found == block_root_by_slot_with_store(d, store, GENESIS_SLOT)
    IN  IF IsSome(found) THEN RootOk(Unwrap(found))
        ELSE RootErr("GenesisBlockRootNotFound")

\* The last block at or before `slot` on the chain that ends in `root`.
RECURSIVE AncestorAt(_, _)
AncestorAt(root, slot) ==
    IF BlockTable[root].slot <= slot THEN root
    ELSE AncestorAt(BlockTable[root].parent_root, slot)

\* accessors::get_block_root_at_slot(state, slot)
get_block_root_at_slot(state, slot) ==
    IF slot < state.slot /\ state.slot <= slot + SLOTS_PER_HISTORICAL_ROOT
    THEN RootOk(AncestorAt(state.latest_block_root, slot))
    ELSE RootErr("SlotOutOfRange")

\* dependent_root with a failed lookup replaced by the default root.
dependent_root_or_default(d, store, state, epoch) ==
    LET start_slot == compute_start_slot_at_epoch(epoch)
        found == IF start_slot >= 1
                 THEN get_block_root_at_slot(state, start_slot - 1)
                 ELSE genesis_block_root(d, store)
    IN  IF found.kind = "Err" THEN RootOk(ZERO_ROOT) ELSE found

dependent_root(d, store, state, epoch) ==
    LET start_slot == compute_start_slot_at_epoch(epoch)
    IN  WithContext(IF start_slot >= 1
                    THEN get_block_root_at_slot(state, start_slot - 1)
                    ELSE genesis_block_root(d, store),
                    "DependentRootLookupFailed")

\* The segments of the canonical chain and of the fork a store can hold.
Stores == {{1}, {2}, {3}, {1, 2}, {2, 3}, {1, 2, 3}, {4}, {5}, {1, 4}, {4, 5}, {1, 4, 5}}

\* Databases whose slot index holds, for each slot with a block, no entry or
\* the root of one of the blocks at that slot.
LookupDbs ==
    {PutBatch(EmptyDb,
              (IF r0 = ZERO_ROOT THEN << >>
               ELSE <<serialize(BlockRootBySlot(BlockTable[r0].slot), r0)>>)
              \o (IF r1 = ZERO_ROOT THEN << >>
                  ELSE <<serialize(BlockRootBySlot(BlockTable[r1].slot), r1)>>)
              \o (IF r32 = ZERO_ROOT THEN << >>
                  ELSE <<serialize(BlockRootBySlot(BlockTable[r32].slot), r32)>>)) :
        r0 \in {ZERO_ROOT, 1}, r1 \in {ZERO_ROOT, 2, 4}, r32 \in {ZERO_ROOT, 3, 5}}

LookupSlots == {0, 1, 2, 32, 33}
LookupEpochs == {0, 1, 2}

\* The post-states of the blocks, as they are and advanced to slot 64.
LookupStates ==
    {PostState(r) : r \in Roots} \cup {process_slots(PostState(r), 64) : r \in Roots}

NoLookupRet ==
    [op |-> "", slot |-> 0, epoch |-> 0, state |-> GenesisState, option |-> None,
     result |-> RootOk(ZERO_ROOT)]

InitLookup ==
    /\ db \in LookupDbs
    /\ prune_storage = FALSE
    /\ archival_epoch_interval = 1
    /\ pc = "idle"
    /\ ld \in {[store |-> store] : store \in Stores}
    /\ ret = NoLookupRet
    /\ nops = 0

\* block_root_by_slot_with_store(store, slot)
BlockRootBySlotWithStore ==
    \E slot \in LookupSlots :
        /\ ret' = [NoLookupRet EXCEPT
                      !.op = "block_root_by_slot_with_store", !.slot = slot,
                      !.option = block_root_by_slot_with_store(db, ld.store, slot)]
        /\ UNCHANGED <<db, prune_storage, archival_epoch_interval, pc, ld, nops>>

\* dependent_root(store, state, epoch)
DependentRoot ==
    \E state \in LookupStates, epoch \in LookupEpochs :
        /\ ret' = [NoLookupRet EXCEPT
                      !.op = "dependent_root", !.epoch = epoch, !.state = state,
                      !.result = dependent_root(db, ld.store, state, epoch)]
        /\ UNCHANGED <<db, prune_storage, archival_epoch_interval, pc, ld, nops>>

NextLookup ==
    \/ BlockRootBySlotWithStore
    \/ DependentRoot

SpecLookup == InitLookup /\ [][NextLookup]_vars

\* The store's chain links at or before a slot.
StoreLinksAtOrBefore(slot) == {r \in ld.store : BlockTable[r].slot <= slot}

\* C23: block_root_by_slot_with_store returns the store's root when the
\* store's link at or before the slot is at exactly that slot, and what
\* block_root_by_slot reads from the database in every other case.
C23_StoreAnswerOrStorage ==
    ret.op = "block_root_by_slot_with_store" =>
        IF \E r \in ld.store : BlockTable[r].slot = ret.slot
        THEN \E r \in ld.store : BlockTable[r].slot = ret.slot /\ ret.option = Some(r)
        ELSE ret.option = block_root_by_slot(db, ret.slot)

\* The blocks of the chain that ends in `root`.
RECURSIVE ChainOf(_)
ChainOf(root) ==
    IF root \notin DOMAIN BlockTable THEN {}
    ELSE {root} \cup ChainOf(BlockTable[root].parent_root)

\* C24: dependent_root returns the genesis block root (the store's, else the
\* database's) for epoch 0 and the state's block root at the slot before the
\* epoch's start otherwise; when the lookup fails the result is an error with
\* the context DependentRootLookupFailed, GenesisBlockRootNotFound for a
\* missing genesis root, and never a root.
C24_DependentRootOrError ==
    ret.op = "dependent_root" =>
        LET result == ret.result
            root_slot == ret.epoch * SLOTS_PER_EPOCH - 1
            chain == ChainOf(ret.state.latest_block_root)
        IN  /\ result.kind = "Err" => result.context = "DependentRootLookupFailed"
            /\ ret.epoch = 0 =>
                   IF \E r \in ld.store : BlockTable[r].slot = GENESIS_SLOT
                   THEN result.kind = "Ok" /\ result.root \in ld.store
                        /\ BlockTable[result.root].slot = GENESIS_SLOT
                   ELSE IF BlockRootBySlot(GENESIS_SLOT) \in DOMAIN db
                   THEN result.kind = "Ok"
                        /\ result.root = db[BlockRootBySlot(GENESIS_SLOT)]
                   ELSE result.kind = "Err" /\ result.err = "GenesisBlockRootNotFound"
            /\ ret.epoch > 0 =>
                   IF root_slot < ret.state.slot
                   THEN /\ result.kind = "Ok"
                        /\ result.root \in chain
                        /\ BlockTable[result.root].slot <= root_slot
                        /\ \A q \in chain :
                               BlockTable[q].slot <= root_slot =>
                                   BlockTable[q].slot <= BlockTable[result.root].slot
                   ELSE result.kind = "Err"

\* dependent_root for epoch 0 with no genesis root in the store or the database.
C24_Witness ==
    /\ ret.op = "dependent_root" /\ ret.epoch = 0
    /\ ret.result.kind = "Err" /\ ret.result.err = "GenesisBlockRootNotFound"
    /\ ret.result.context = "DependentRootLookupFailed"

-----------------------------------------------------------------------------
\* load_state_and_blocks_from_checkpoint run one database call at a time by a
\* reader, while appends commit their batches in between. `seen` collects the
\* databases the reader's calls were served from.

Reading == "step" \in DOMAIN ld

ReadDone(l, database, result) ==
    [step |-> "done", checkpoint |-> l.checkpoint, block |-> l.block,
     seen |-> l.seen \cup {database}, result |-> result]

\* self.load_state_checkpoint()?
ReadStateCheckpoint ==
    /\ pc = "idle" /\ ~Reading
    /\ LET found == load_state_checkpoint(db)
           l == [step |-> "block_checkpoint", checkpoint |-> found, block |-> None,
                 seen |-> {db}, result |-> StorageNone]
       IN  ld' = IF IsSome(found) THEN l ELSE ReadDone(l, db, StorageNone)
    /\ UNCHANGED <<db, prune_storage, archival_epoch_interval, pc, ret, nops>>

\* self.load_block_checkpoint()? and the comparison of the roots.
ReadBlockCheckpoint ==
    /\ pc = "idle" /\ Reading /\ ld.step = "block_checkpoint"
    /\ LET found == load_block_checkpoint(db)
           requested == Unwrap(ld.checkpoint).block_root
       IN  ld' = IF ~IsSome(found)
                 THEN [ld EXCEPT !.step = "finalized_block", !.seen = @ \cup {db}]
                 ELSE IF requested # hash_tree_root(Unwrap(found).block)
                 THEN ReadDone(ld, db, StorageErr("CheckpointBlockRootMismatch"))
                 ELSE IF ~is_epoch_start(Unwrap(ld.checkpoint).state.slot)
                 THEN ReadDone(ld, db, StorageErr("PersistedSlotCannotContainAnchor"))
                 ELSE [ld EXCEPT !.step = "scan", !.seen = @ \cup {db},
                                 !.block = Some(Unwrap(found).block)]
    /\ UNCHANGED <<db, prune_storage, archival_epoch_interval, pc, ret, nops>>

\* self.finalized_block_by_root(block_root)?.ok_or(BlockNotFound)?
ReadFinalizedBlock ==
    /\ pc = "idle" /\ Reading /\ ld.step = "finalized_block"
    /\ LET found == finalized_block_by_root(db, Unwrap(ld.checkpoint).block_root)
       IN  ld' = IF ~IsSome(found)
                 THEN ReadDone(ld, db, StorageErr("BlockNotFound"))
                 ELSE IF ~is_epoch_start(Unwrap(ld.checkpoint).state.slot)
                 THEN ReadDone(ld, db, StorageErr("PersistedSlotCannotContainAnchor"))
                 ELSE [ld EXCEPT !.step = "scan", !.seen = @ \cup {db}, !.block = found]
    /\ UNCHANGED <<db, prune_storage, archival_epoch_interval, pc, ret, nops>>

\* The ascending scan of the slot index and the return of the triple.
ReadScan ==
    /\ pc = "idle" /\ Reading /\ ld.step = "scan"
    /\ LET state == Unwrap(ld.checkpoint).state
           roots == TakeWhileBlockRoot(
               db, iterator_ascending(db, to_string(BlockRootBySlot(state.slot + 1))))
       IN  ld' = ReadDone(ld, db, StorageFull(state, Unwrap(ld.block), roots))
    /\ UNCHANGED <<db, prune_storage, archival_epoch_interval, pc, ret, nops>>

\* An empty database, or one holding a StateCheckpoint and no BlockCheckpoint.
InitRace ==
    /\ db \in {EmptyDb} \cup {d \in CheckpointDbs : BlockCheckpointKEY \notin DOMAIN d}
    /\ prune_storage \in BOOLEAN
    /\ archival_epoch_interval = 1
    /\ pc = "idle"
    /\ ld = NoLoad
    /\ ret = NoRet
    /\ nops = 0

\* append(unfinalized = [], finalized): the writer next to the reader.
AppendFinalized ==
    \E finalized \in FinalizedInputs :
        /\ pc = "idle" /\ nops < MaxOps
        /\ db' = PutBatch(db, AppendBatch(db, << >>, finalized,
                                          prune_storage, archival_epoch_interval))
        /\ ret' = [NoRet EXCEPT !.op = "append", !.status = "ok", !.pre = db,
                                !.finalized = finalized,
                                !.slots = AppendedBlockSlots(<< >>, finalized,
                                                             prune_storage)]
        /\ nops' = nops + 1
        /\ UNCHANGED <<prune_storage, archival_epoch_interval, pc, ld>>

NextRace ==
    \/ AppendFinalized
    \/ ReadStateCheckpoint
    \/ ReadBlockCheckpoint
    \/ ReadFinalizedBlock
    \/ ReadScan

SpecRace == InitRace /\ [][NextRace]_vars

\* C25: a checkpoint load running next to appends returns what it returns on
\* one of the databases it read from, the one before or the one after a batch.
C25_ReaderSeesOneDatabase ==
    (Reading /\ ld.step = "done") =>
        \E d \in ld.seen : ld.result = load_state_and_blocks_from_checkpoint(d)

\* C26: a FinalizedBlockByRoot, UnfinalizedBlockByRoot or StateByBlockRoot
\* record, once written, keeps its value through every later step.
C26_BlocksAndStatesImmutable ==
    [][\A k \in DOMAIN db :
           k[1] \in {"b", "b_nf", "s"} => (k \in DOMAIN db' /\ db'[k] = db[k])]_vars

-----------------------------------------------------------------------------
\* Auto loads over databases holding any combination of a StateCheckpoint, a
\* BlockCheckpoint and the finalized block the StateCheckpoint names.

InitAuto ==
    /\ db \in CheckpointDbs
    /\ prune_storage = FALSE
    /\ archival_epoch_interval = 1
    /\ pc = "idle"
    /\ ld = NoLoad
    /\ ret = NoRet
    /\ nops = 0

NextAuto ==
    \/ LoadStartAuto
    \/ FetchOk
    \/ FetchFail
    \/ LoadCommit
    \/ LoadCommitFail
    \/ Crash

SpecAuto == InitAuto /\ [][NextAuto]_vars

\* C27: an Auto load whose local recovery returned an error has ended with
\* that error: the remote was not contacted, no anchor was chosen and the
\* database is as the load found it.
C27_LocalErrorEndsLoad ==
    (AutoInView /\ ViewLoad.local.kind = "Err") =>
        /\ pc = "idle"
        /\ ret.status = "err" /\ ret.err = ret.local.err
        /\ ret.err \in {"CheckpointBlockRootMismatch", "PersistedSlotCannotContainAnchor",
                         "BlockNotFound", "Database"}
        /\ ret.fetch = "" /\ ret.anchor = None /\ ~ret.loaded_from_remote
        /\ ret.committed = 0 /\ db = ret.pre

\* An Auto load given a checkpoint URL that ended with
\* CheckpointBlockRootMismatch from its local recovery.
C27_Witness ==
    /\ pc = "idle" /\ ret.op = "load" /\ ret.strategy = "Auto" /\ ret.has_url
    /\ ret.local.kind = "Err" /\ ret.status = "err"
    /\ ret.err = "CheckpointBlockRootMismatch"
    /\ db = ret.pre

-----------------------------------------------------------------------------
\* One append call with links of either validity in both arguments and up to
\* MaxLinks finalized links, among them several at epoch starts. The batch
\* given to put_batch is kept next to the result.

MaxLinks == 3

\* Finalized links: blocks of the canonical chain at slots 0, 1, 32, 64 and
\* 128, valid or not, in slot order, oldest first or newest first.
FinalizedLinksOnce == {Link(r, v) : r \in {1, 2, 3, 6, 8}, v \in BOOLEAN}

FinalizedInputsOnce ==
    {f \in SeqsUpTo(FinalizedLinksOnce, MaxLinks) :
        \/ \A i, j \in 1..Len(f) : i < j => LinkSlot(f[i]) < LinkSlot(f[j])
        \/ \A i, j \in 1..Len(f) : i < j => LinkSlot(f[i]) > LinkSlot(f[j])}

NoAppendRet ==
    [op |-> "", unfinalized |-> << >>, finalized |-> << >>, batch |-> << >>,
     slots |-> [finalized |-> << >>, unfinalized |-> << >>]]

InitOnce ==
    /\ db = EmptyDb
    /\ prune_storage \in BOOLEAN
    /\ archival_epoch_interval \in ArchivalIntervals
    /\ pc = "idle"
    /\ ld = NoLoad
    /\ ret = NoAppendRet
    /\ nops = 0

\* append(unfinalized, finalized, store)
AppendOnce ==
    \E unfinalized \in UnfinalizedInputs, finalized \in FinalizedInputsOnce :
        LET batch == AppendBatch(db, unfinalized, finalized,
                                 prune_storage, archival_epoch_interval)
        IN  /\ pc = "idle" /\ nops = 0
            /\ Disjoint(unfinalized, finalized)
            /\ db' = PutBatch(db, batch)
            /\ ret' = [op |-> "append", unfinalized |-> unfinalized,
                       finalized |-> finalized, batch |-> batch,
                       slots |-> AppendedBlockSlots(unfinalized, finalized,
                                                    prune_storage)]
            /\ nops' = nops + 1
            /\ UNCHANGED <<prune_storage, archival_epoch_interval, pc, ld>>

NextOnce == AppendOnce

SpecOnce == InitOnce /\ [][NextOnce]_vars

\* The entries of the batch of the append in `ret` that belong to a link: its
\* block under either family, its slot-index and state-root index entries, its
\* snapshot, and the checkpoint pair naming it.
EntriesOf(chain_link) ==
    {i \in 1..Len(ret.batch) :
        LET key == ret.batch[i][1]
            value == ret.batch[i][2]
        IN  \/ key \in {FinalizedBlockByRoot(chain_link.block_root),
                         UnfinalizedBlockByRoot(chain_link.block_root),
                         StateByBlockRoot(chain_link.block_root)}
            \/ key[1] = "r" /\ value = chain_link.block_root
            \/ key = SlotByStateRoot(chain_link.block.state_root)
            \/ key = StateCheckpointKEY /\ value.block_root = chain_link.block_root
            \/ key = BlockCheckpointKEY /\ value.block = chain_link.block}

InBatch(entry) == \E i \in 1..Len(ret.batch) : ret.batch[i] = entry

\* The slots of a sequence of links.
SlotsOf(links) == [i \in 1..Len(links) |-> LinkSlot(links[i])]

\* C28: append processes a link exactly when it is finalized or valid. An
\* unfinalized link that is not valid puts nothing in the batch and no slot
\* in the result; a valid unfinalized link and every finalized link, valid or
\* not, gets its block and slot-index entries and its slot in the result
\* (pruning disabled), and a finalized epoch-start link that is not valid
\* still supplies the checkpoint pair.
C28_ProcessedIffFinalizedOrValid ==
    ret.op = "append" =>
        LET valid_unfinalized == SelectSeq(ret.unfinalized, LAMBDA l : l.valid)
        IN  /\ \A i \in 1..Len(ret.unfinalized) :
                   ~ret.unfinalized[i].valid => EntriesOf(ret.unfinalized[i]) = {}
            /\ ret.slots.unfinalized =
                   IF prune_storage THEN << >> ELSE SlotsOf(valid_unfinalized)
            /\ ret.slots.finalized =
                   IF prune_storage THEN << >> ELSE SlotsOf(Reverse(ret.finalized))
            /\ ~prune_storage =>
                   /\ \A i \in 1..Len(valid_unfinalized) :
                          LET l == valid_unfinalized[i]
                          IN  /\ InBatch(serialize(UnfinalizedBlockByRoot(l.block_root),
                                                   l.block))
                              /\ InBatch(serialize(BlockRootBySlot(LinkSlot(l)),
                                                   l.block_root))
                   /\ \A i \in 1..Len(ret.finalized) :
                          LET l == ret.finalized[i]
                          IN  /\ InBatch(serialize(FinalizedBlockByRoot(l.block_root),
                                                   l.block))
                              /\ InBatch(serialize(BlockRootBySlot(LinkSlot(l)),
                                                   l.block_root))
                              /\ InBatch(serialize(SlotByStateRoot(l.block.state_root),
                                                   LinkSlot(l)))
            /\ (\E i \in 1..Len(ret.finalized) : is_epoch_start(LinkSlot(ret.finalized[i])))
                   => \E i \in 1..Len(ret.finalized) :
                          /\ is_epoch_start(LinkSlot(ret.finalized[i]))
                          /\ InBatch(serialize(BlockCheckpointKEY,
                                               [block |-> ret.finalized[i].block]))

\* An append, pruning disabled, given an unfinalized link that is not valid,
\* a valid one, and a finalized epoch-start link that is not valid.
C28_Witness ==
    /\ ret.op = "append" /\ ~prune_storage
    /\ \E i \in 1..Len(ret.unfinalized) : ~ret.unfinalized[i].valid
    /\ \E i \in 1..Len(ret.unfinalized) : ret.unfinalized[i].valid
    /\ \E i \in 1..Len(ret.finalized) :
           /\ ~ret.finalized[i].valid /\ is_epoch_start(LinkSlot(ret.finalized[i]))
           /\ ret.finalized[i].block_root \in IndexedRoots(db)

\* The positions of the batch of the append in `ret` that hold the given key.
BatchPositions(key) == {i \in 1..Len(ret.batch) : ret.batch[i][1] = key}

\* The finalized links of the append in `ret` in processing order, and the
\* positions among them that are at an epoch start.
ProcessingOrder == Reverse(ret.finalized)
EpochStartPositions ==
    {i \in 1..Len(ProcessingOrder) : is_epoch_start(LinkSlot(ProcessingOrder[i]))}

\* C29: the batch of one append holds the checkpoint pair at most once: the
\* BlockCheckpoint and, right after it, the StateCheckpoint of the first
\* finalized epoch-start link in processing order, and neither record when no
\* finalized link is at an epoch start.
C29_CheckpointPairAtMostOnce ==
    ret.op = "append" =>
        IF EpochStartPositions = {}
        THEN BatchPositions(StateCheckpointKEY) = {}
             /\ BatchPositions(BlockCheckpointKEY) = {}
        ELSE LET first == CHOOSE i \in EpochStartPositions :
                              \A j \in EpochStartPositions : i <= j
                 chain_link == ProcessingOrder[first]
             IN  /\ Cardinality(BatchPositions(StateCheckpointKEY)) = 1
                 /\ Cardinality(BatchPositions(BlockCheckpointKEY)) = 1
                 /\ \E i \in BatchPositions(BlockCheckpointKEY) :
                        /\ ret.batch[i][2].block = chain_link.block
                        /\ i + 1 \in BatchPositions(StateCheckpointKEY)
                        /\ ret.batch[i + 1][2].block_root = chain_link.block_root
                        /\ ret.batch[i + 1][2].state = chain_link.state

\* An append given three finalized links oldest first, two of them at epoch
\* starts, whose batch holds the pair of the newest one.
C29_Witness ==
    /\ ret.op = "append" /\ Len(ret.finalized) = 3
    /\ LinkSlot(ret.finalized[1]) < LinkSlot(ret.finalized[3])
    /\ Cardinality(EpochStartPositions) >= 2
    /\ IsSome(load_state_checkpoint(db))
    /\ Unwrap(load_state_checkpoint(db)).block_root = ret.finalized[3].block_root
    /\ is_epoch_start(LinkSlot(ret.finalized[3]))

\* The positions of the batch of the append in `ret` that hold a snapshot.
SnapshotPositions == {i \in 1..Len(ret.batch) : ret.batch[i][1][1] = "s"}

\* The positions in processing order of the finalized links at an epoch start
\* whose epoch is a multiple of archival_epoch_interval.
ArchivalPositions ==
    {i \in 1..Len(ProcessingOrder) :
        LinkSlot(ProcessingOrder[i]) % (SLOTS_PER_EPOCH * archival_epoch_interval) = 0}

\* C30: the batch of one append holds at most one StateByBlockRoot snapshot:
\* with pruning disabled that of the first finalized link in processing order
\* at an epoch start whose epoch is a multiple of archival_epoch_interval, and
\* none when there is no such link or pruning is enabled; unfinalized links
\* get none.
C30_SnapshotAtMostOnce ==
    ret.op = "append" =>
        IF prune_storage \/ ArchivalPositions = {}
        THEN SnapshotPositions = {}
        ELSE LET first == CHOOSE i \in ArchivalPositions :
                              \A j \in ArchivalPositions : i <= j
                 chain_link == ProcessingOrder[first]
             IN  /\ Cardinality(SnapshotPositions) = 1
                 /\ \A i \in SnapshotPositions :
                        ret.batch[i] = serialize(StateByBlockRoot(chain_link.block_root),
                                                 chain_link.state)

\* An append with interval 4 given the finalized links at slots 0, 64 and 128
\* oldest first next to an unfinalized epoch-start link: the one snapshot is
\* that of the link at slot 128.
C30_Witness ==
    /\ ret.op = "append" /\ ~prune_storage /\ archival_epoch_interval = 4
    /\ Len(ret.finalized) = 3
    /\ SlotsOf(ret.finalized) = <<0, 64, 128>>
    /\ \E i \in 1..Len(ret.unfinalized) :
           ret.unfinalized[i].valid /\ is_epoch_start(LinkSlot(ret.unfinalized[i]))
    /\ StateByBlockRoot(ret.finalized[3].block_root) \in DOMAIN db
    /\ StateByBlockRoot(ret.finalized[1].block_root) \notin DOMAIN db

-----------------------------------------------------------------------------
\* Pruning mode of append.

\* The first finalized link at an epoch start in the order append processes
\* the finalized links (the reverse of the order given).
FirstEpochStartLink(finalized) ==
    LET order == Reverse(finalized)
        at == {i \in 1..Len(order) : is_epoch_start(LinkSlot(order[i]))}
    IN  order[CHOOSE i \in at : \A j \in at : i <= j]

\* C31: right after an append with pruning enabled, every key other than the
\* two checkpoint literals has the value (or the absence) it had before, so no
\* block, slot-index, state-root index or snapshot record was written; and
\* when a finalized link is at an epoch start the checkpoint pair stored is
\* that of the first such link processed.
C31_PruningAppendWritesCheckpointOnly ==
    (AppendInView /\ prune_storage) =>
        /\ \A k \in (DOMAIN db) \cup (DOMAIN ret.pre) :
               k \notin {StateCheckpointKEY, BlockCheckpointKEY} =>
                   /\ k \in DOMAIN db /\ k \in DOMAIN ret.pre
                   /\ db[k] = ret.pre[k]
        /\ WroteCheckpoint =>
               LET first == FirstEpochStartLink(ret.finalized)
               IN  /\ load_block_checkpoint(db) = Some([block |-> first.block])
                   /\ IsSome(load_state_checkpoint(db))
                   /\ Unwrap(load_state_checkpoint(db)).block_root = first.block_root
                   /\ Unwrap(load_state_checkpoint(db)).state = first.state
        /\ ~WroteCheckpoint =>
               /\ load_block_checkpoint(db) = load_block_checkpoint(ret.pre)
               /\ load_state_checkpoint(db) = load_state_checkpoint(ret.pre)

\* An append with pruning enabled, on a database that already holds records,
\* given a valid unfinalized link and two finalized links at epoch starts, of
\* which the first processed got the checkpoint pair.
C31_Witness ==
    /\ AppendInView /\ prune_storage
    /\ DOMAIN ret.pre # {}
    /\ \E j \in 1..Len(ret.unfinalized) : ret.unfinalized[j].valid
    /\ Len(ret.finalized) = 2
    /\ \A i \in 1..2 : is_epoch_start(LinkSlot(ret.finalized[i]))
    /\ Unwrap(load_state_checkpoint(db)).block_root = ret.finalized[2].block_root
    /\ load_state_checkpoint(db) # load_state_checkpoint(ret.pre)

-----------------------------------------------------------------------------
\* The blocks replayed by stored_state.

\* The block roots stored_state(slot) hands to trusted_state_transition when
\* it returns a state: the roots collected by load_state_by_iteration, oldest
\* first.
ReplayedRoots(d, slot) ==
    IF stored_state(d, slot).kind = "Some"
    THEN Reverse(load_state_by_iteration(d, slot).roots)
    ELSE << >>

\* C32: for every target slot, the blocks stored_state(target) replays onto
\* the anchor snapshot are finalized blocks (each has a FinalizedBlockByRoot
\* record) at slots above the anchor and at or below target, in ascending slot
\* order; a block stored in the unfinalized family only is not among them.
C32_StoredStateReplaysFinalizedOnly ==
    \A target \in TargetSlots :
        LET roots == ReplayedRoots(db, target)
            anchor == load_state_by_iteration(db, target)
        IN  /\ \A i \in 1..Len(roots) :
                   /\ IsSome(finalized_block_by_root(db, roots[i]))
                   /\ BlockTable[roots[i]].slot > Unwrap(anchor.state).slot
                   /\ BlockTable[roots[i]].slot <= target
            /\ \A i, j \in 1..Len(roots) :
                   i < j => BlockTable[roots[i]].slot < BlockTable[roots[j]].slot

-----------------------------------------------------------------------------
\* The state reconstructions called on a storage that a load and an append
\* have filled, or that holds a checkpoint. Each call reads the database and
\* leaves its result in `ret`.

\* The databases after load(Anchor) and one append with pruning disabled.
ReplayDbs(interval) ==
    { LET loaded == PutBatch(EmptyDb, AnchorBatches(a.block, a.state)[1])
      IN  PutBatch(loaded, AppendBatch(loaded, sel[1], sel[2], FALSE, interval)) :
        a \in AnchorInputs,
        sel \in {x \in UnfinalizedInputs \X FinalizedInputs : Disjoint(x[1], x[2])} }

\* Databases whose slot index names roots with a finalized block, an
\* unfinalized block or no block at all, with or without the genesis snapshot.
DanglingDbs ==
    { PutBatch(EmptyDb,
        (IF snapshot
         THEN << serialize(StateByBlockRoot(1), PostState(1)) >> ELSE << >>)
        \o (IF family[1] = "" THEN << >>
            ELSE << serialize(<<family[1], 1>>, BlockTable[1]) >>)
        \o (IF family[2] = "" THEN << >>
            ELSE << serialize(<<family[2], 2>>, BlockTable[2]) >>)
        \o (IF family[3] = "" THEN << >>
            ELSE << serialize(<<family[3], 3>>, BlockTable[3]) >>)
        \o [i \in 1..Len(indexed) |->
                serialize(BlockRootBySlot(BlockTable[indexed[i]].slot), indexed[i])]) :
      snapshot \in BOOLEAN,
      family \in [1..3 -> {"", "b", "b_nf"}],
      indexed \in {<<1>>, <<1, 2>>, <<1, 2, 3>>, <<2>>} }

ReplaySlots == {0, 1, 32, 33}

NoReplayRet ==
    [op |-> "", block_root |-> ZERO_ROOT, slot |-> 0, result |-> StateNone, pre |-> EmptyDb,
     local |-> StorageNone, option |-> None, count |-> 0]

InitReplay ==
    /\ prune_storage = FALSE
    /\ archival_epoch_interval \in ArchivalIntervals
    /\ db \in ReplayDbs(archival_epoch_interval) \cup CheckpointDbs \cup DanglingDbs
    /\ pc = "idle"
    /\ ld = NoLoad
    /\ ret = NoReplayRet
    /\ nops = 0

\* preprocessed_state_post_block(block_root, slot)
PreprocessedStatePostBlock ==
    \E block_root \in Roots, slot \in ReplaySlots :
        /\ nops = 0
        /\ ret' = [NoReplayRet EXCEPT
                      !.op = "preprocessed_state_post_block",
                      !.block_root = block_root, !.slot = slot, !.pre = db,
                      !.result = preprocessed_state_post_block(db, block_root, slot)]
        /\ nops' = 1
        /\ UNCHANGED <<db, prune_storage, archival_epoch_interval, pc, ld>>

\* stored_state(slot)
StoredState ==
    \E slot \in ReplaySlots :
        /\ nops = 0
        /\ ret' = [NoReplayRet EXCEPT
                      !.op = "stored_state", !.slot = slot, !.pre = db,
                      !.result = stored_state(db, slot)]
        /\ nops' = 1
        /\ UNCHANGED <<db, prune_storage, archival_epoch_interval, pc, ld>>

\* load_latest_state()
LoadLatestState ==
    /\ nops = 0
    /\ ret' = [NoReplayRet EXCEPT
                  !.op = "load_latest_state", !.pre = db, !.local = load_latest_state(db)]
    /\ nops' = 1
    /\ UNCHANGED <<db, prune_storage, archival_epoch_interval, pc, ld>>

\* block_by_slot(slot): the call returns Ok on every path; the Option it
\* returns is kept in `option`, and `result` stays without an error.
BlockBySlot ==
    \E slot \in ReplaySlots :
        /\ nops = 0
        /\ ret' = [NoReplayRet EXCEPT
                      !.op = "block_by_slot", !.slot = slot, !.pre = db,
                      !.option = block_by_slot(db, slot)]
        /\ nops' = 1
        /\ UNCHANGED <<db, prune_storage, archival_epoch_interval, pc, ld>>

\* finalized_block_count()
FinalizedBlockCount ==
    /\ nops = 0
    /\ ret' = [NoReplayRet EXCEPT
                  !.op = "finalized_block_count", !.pre = db,
                  !.count = finalized_block_count(db)]
    /\ nops' = 1
    /\ UNCHANGED <<db, prune_storage, archival_epoch_interval, pc, ld>>

NextReplay ==
    \/ PreprocessedStatePostBlock
    \/ StoredState
    \/ LoadLatestState
    \/ BlockBySlot
    \/ FinalizedBlockCount

SpecReplay == InitReplay /\ [][NextReplay]_vars

\* The roots on the path of parent_root links from root: root first, then its
\* parent, and so on up to the genesis block.
RECURSIVE ParentPath(_)
ParentPath(root) ==
    IF root \notin DOMAIN BlockTable THEN << >>
    ELSE <<root>> \o ParentPath(BlockTable[root].parent_root)

\* Whether d holds the block of a root in either family.
HasBlock(d, root) ==
    IsSome(finalized_block_by_root(d, root)) \/ IsSome(unfinalized_block_by_root(d, root))

\* The position on the path where the walk stops: the first root with a
\* persisted state or without a block; 0 when the walk leaves the path.
WalkStop(d, path) ==
    LET stops == {i \in 1..Len(path) :
                     IsSome(state_by_block_root(d, path[i])) \/ ~HasBlock(d, path[i])}
    IN  IF stops = {} THEN 0 ELSE CHOOSE i \in stops : \A j \in stops : i <= j

\* The blocks of path[from], path[from - 1], ..., path[1] applied to a state.
RECURSIVE ApplyDown(_, _, _)
ApplyDown(state, path, from) ==
    IF from = 0 THEN StateSome(state)
    ELSE LET next == trusted_state_transition(state, BlockTable[path[from]])
         IN  IF next.kind = "Err" THEN next
             ELSE ApplyDown(Unwrap(next.state), path, from - 1)

\* C33: preprocessed_state_post_block(root, slot) walks the parent_root links
\* from root over the blocks stored in either family up to the first root with
\* a persisted state, applies the blocks walked over oldest first to that
\* state, and moves the result to slot when its slot is lower, never when it
\* is not; it returns None when the walk meets a root with neither a state
\* nor a block; the database is left as it was.
C33_WalksBackThenReplaysForward ==
    ret.op = "preprocessed_state_post_block" =>
        LET path == ParentPath(ret.block_root)
            stop == WalkStop(ret.pre, path)
            found == stop # 0 /\ IsSome(state_by_block_root(ret.pre, path[stop]))
            anchor == Unwrap(state_by_block_root(ret.pre, path[stop]))
            replayed == ApplyDown(anchor, path, stop - 1)
        IN  /\ db = ret.pre
            /\ ~found => ret.result = StateNone
            /\ (found /\ is_epoch_start(anchor.slot) /\ replayed.kind = "Some") =>
                   /\ ret.result.kind = "Some"
                   /\ Unwrap(ret.result.state).latest_block_root
                          = Unwrap(replayed.state).latest_block_root
                   /\ Unwrap(ret.result.state).slot
                          = IF Unwrap(replayed.state).slot < ret.slot
                            THEN ret.slot ELSE Unwrap(replayed.state).slot
            /\ (found /\ is_epoch_start(anchor.slot) /\ replayed.kind = "Err") =>
                   ret.result = replayed

\* A walk over an unfinalized block and a finalized block down to a persisted
\* state, both applied, and the result moved on to a later slot.
C33_Witness ==
    /\ ret.op = "preprocessed_state_post_block"
    /\ ret.block_root = 3 /\ ret.slot = 33
    /\ IsSome(unfinalized_block_by_root(db, 3)) /\ ~IsSome(finalized_block_by_root(db, 3))
    /\ IsSome(finalized_block_by_root(db, 2))
    /\ ~IsSome(state_by_block_root(db, 3)) /\ ~IsSome(state_by_block_root(db, 2))
    /\ IsSome(state_by_block_root(db, 1))
    /\ ret.result = StateSome([slot |-> 33, latest_block_root |-> 3])

\* A walk that ends at a root with neither a state nor a block, after at
\* least one stored block.
C33_WitnessNone ==
    /\ ret.op = "preprocessed_state_post_block"
    /\ HasBlock(db, ret.block_root)
    /\ ~IsSome(state_by_block_root(db, ret.block_root))
    /\ ret.result = StateNone

-----------------------------------------------------------------------------
\* Epoch alignment of the persisted state picked as an anchor.

\* The persisted state a call in `ret` picks as its anchor, None when it picks
\* none: the StateCheckpoint state on the checkpoint path, the snapshot of the
\* indexed root with the greatest slot at or below the starting slot on the
\* iteration path, the snapshot the walk stops at for
\* preprocessed_state_post_block.
PickedState ==
    LET d == ret.pre
        by_iteration(slot) ==
            IF SnapshotKeys(d, slot) = {} THEN None
            ELSE state_by_block_root(d, d[GreatestSnapshotKey(d, slot)])
        path == ParentPath(ret.block_root)
        stop == WalkStop(d, path)
    IN  CASE ret.op = "load_latest_state" ->
                IF IsSome(load_state_checkpoint(d))
                THEN Some(Unwrap(load_state_checkpoint(d)).state)
                ELSE by_iteration(SLOT_MAX)
          [] ret.op = "stored_state" -> by_iteration(ret.slot)
          [] ret.op = "preprocessed_state_post_block" ->
                IF stop = 0 THEN None ELSE state_by_block_root(d, path[stop])
          [] OTHER -> None

\* The call in `ret` picked a state whose slot is not an epoch start.
PickedMisaligned == IsSome(PickedState) /\ ~is_epoch_start(Unwrap(PickedState).slot)

\* The error of the call in `ret`, "" when it did not fail.
ReplayError == IF ret.op = "load_latest_state" THEN ret.local.err ELSE ret.result.err

\* The call in `ret` failed: no state and no block roots came back.
FailedWithoutState ==
    IF ret.op = "load_latest_state"
    THEN ret.local.kind = "Err" /\ ret.local.state = None /\ ret.local.roots = << >>
    ELSE ret.result.kind = "Err" /\ ret.result.state = None

\* The checkpoint path took a StateCheckpoint whose block cannot be
\* established: the BlockCheckpoint holds another block, or there is neither
\* a BlockCheckpoint nor a finalized block of that root.
CheckpointBlockFails ==
    /\ ret.op = "load_latest_state"
    /\ IsSome(load_state_checkpoint(ret.pre))
    /\ LET checkpoint == Unwrap(load_state_checkpoint(ret.pre))
           block_checkpoint == load_block_checkpoint(ret.pre)
       IN  IF IsSome(block_checkpoint)
           THEN hash_tree_root(Unwrap(block_checkpoint).block) # checkpoint.block_root
           ELSE ~IsSome(finalized_block_by_root(ret.pre, checkpoint.block_root))

\* C34 as stated: every call that picks a persisted state whose slot is not an
\* epoch start fails with PersistedSlotCannotContainAnchor, with no state.
C34_MisalignedAnchorRejected ==
    PickedMisaligned =>
        FailedWithoutState /\ ReplayError = "PersistedSlotCannotContainAnchor"

\* C34 amended: every call that picks a persisted state whose slot is not an
\* epoch start fails and returns no state and no blocks; the error is
\* PersistedSlotCannotContainAnchor, except on the checkpoint path when the
\* block of the checkpoint cannot be established, where the error is that of
\* the block check (CheckpointBlockRootMismatch or BlockNotFound).
C34_MisalignedAnchorFails ==
    PickedMisaligned =>
        /\ FailedWithoutState
        /\ db = ret.pre
        /\ IF CheckpointBlockFails
           THEN ReplayError \in {"CheckpointBlockRootMismatch", "BlockNotFound"}
           ELSE ReplayError = "PersistedSlotCannotContainAnchor"

\* preprocessed_state_post_block walked over a stored block to a snapshot at a
\* slot that is not an epoch start and failed.
C34_Witness ==
    /\ ret.op = "preprocessed_state_post_block"
    /\ PickedMisaligned
    /\ ~IsSome(state_by_block_root(db, ret.block_root))
    /\ ret.result = StateErr("PersistedSlotCannotContainAnchor")

-----------------------------------------------------------------------------
\* The blocks returned with the checkpoint.

\* The BlockRootBySlot keys of d above a slot.
IndexKeysAbove(d, slot) == {k \in DOMAIN d : k[1] = "r" /\ k[2] > slot}

\* C35: when the database holds a StateCheckpoint whose block can be
\* established and whose state is at an epoch start, the recovery returns the
\* checkpoint state, the checkpoint block, and one block root per
\* BlockRootBySlot entry with a slot above the state's slot, in ascending slot
\* order, each the value of that entry and of no other key.
C35_CheckpointBlocksAreIndexAbove ==
    (/\ ret.op = "load_latest_state"
     /\ IsSome(load_state_checkpoint(ret.pre))
     /\ ~CheckpointBlockFails
     /\ ~PickedMisaligned) =>
        LET checkpoint == Unwrap(load_state_checkpoint(ret.pre))
            above == IndexKeysAbove(ret.pre, checkpoint.state.slot)
            roots == ret.local.roots
        IN  /\ ret.local.kind = "Full"
            /\ ret.local.state = Some(checkpoint.state)
            /\ hash_tree_root(Unwrap(ret.local.block)) = checkpoint.block_root
            /\ Len(roots) = Cardinality(above)
            /\ \A k \in above :
                   roots[1 + Cardinality({j \in above : j[2] < k[2]})] = ret.pre[k]

\* A recovery from a checkpoint at slot 0 on a database that indexes slot 0
\* and two later slots and holds StateByBlockRoot and SlotByStateRoot records,
\* whose keys sort after the index: the two later roots are returned.
C35_Witness ==
    /\ ret.op = "load_latest_state"
    /\ ret.local.kind = "Full"
    /\ IsSome(load_state_checkpoint(db))
    /\ BlockRootBySlot(Unwrap(load_state_checkpoint(db)).state.slot) \in DOMAIN db
    /\ Len(ret.local.roots) = 2
    /\ \E k \in DOMAIN db : k[1] = "s"
    /\ \E k \in DOMAIN db : k[1] = "t"

-----------------------------------------------------------------------------
\* Index entries without a block.

\* C36: a call that resolves a block root from the BlockRootBySlot index while
\* no block of that root is stored in either family fails with BlockNotFound:
\* block_by_slot for the root indexed at its slot, stored_state for the roots
\* it collects from the index once it has found its anchor snapshot.
C36_MissingBlockIsBlockNotFound ==
    /\ ret.op = "block_by_slot" =>
           \A root \in Roots :
               (block_root_by_slot(ret.pre, ret.slot) = Some(root)
                /\ ~HasBlock(ret.pre, root)) =>
                   ret.result = StateErr("BlockNotFound")
    /\ ret.op = "stored_state" =>
           LET local == load_state_by_iteration(ret.pre, ret.slot)
           IN  (local.kind = "Full"
                /\ \E i \in 1..Len(local.roots) : ~HasBlock(ret.pre, local.roots[i])) =>
                   ret.result = StateErr("BlockNotFound")

-----------------------------------------------------------------------------
\* The frame of prune_old_blob_sidecars.

-----------------------------------------------------------------------------
\* The scan of the finalized-block family.

\* C38: finalized_block_count() is the number of FinalizedBlockByRoot entries
\* of the database, whatever UnfinalizedBlockByRoot entries it holds.
C38_FinalizedScanCountsFinalizedOnly ==
    ret.op = "finalized_block_count" =>
        ret.count = Cardinality({k \in DOMAIN ret.pre : k[1] = "b"})

-----------------------------------------------------------------------------
\* Two callers of append on the same storage. A call reads the stored
\* head_slot and builds its batch (AppendBuild), and commits the batch with
\* put_batch in a later step (AppendPut); the steps of the two calls may
\* interleave. `ld` holds the batch each caller has built and not yet put.

Callers == {1, 2}

\* The unfinalized links of the two callers: none, or one valid link.
UnfinalizedInputsTwo == {<< >>} \cup {<<Link(r, TRUE)>> : r \in {2, 3}}

NoBatch == [building |-> FALSE, batch |-> << >>]

InitTwoAppends ==
    /\ db = EmptyDb
    /\ prune_storage \in BOOLEAN
    /\ archival_epoch_interval = 1
    /\ pc = "idle"
    /\ ld = [c \in Callers |-> NoBatch]
    /\ ret = NoRet
    /\ nops = 0

\* append up to, and not including, self.database.put_batch(batch).
AppendBuild ==
    \E c \in Callers, unfinalized \in UnfinalizedInputsTwo, finalized \in FinalizedInputs :
        /\ ~ld[c].building /\ nops < MaxOps
        /\ Disjoint(unfinalized, finalized)
        /\ ld' = [ld EXCEPT ![c] =
                     [building |-> TRUE,
                      batch |-> AppendBatch(db, unfinalized, finalized,
                                            prune_storage, archival_epoch_interval)]]
        /\ nops' = nops + 1
        /\ UNCHANGED <<db, prune_storage, archival_epoch_interval, pc, ret>>

\* self.database.put_batch(batch) and the return.
AppendPut ==
    \E c \in Callers :
        /\ ld[c].building
        /\ db' = PutBatch(db, ld[c].batch)
        /\ ld' = [ld EXCEPT ![c] = NoBatch]
        /\ ret' = [NoRet EXCEPT !.op = "append", !.status = "ok", !.pre = db]
        /\ UNCHANGED <<prune_storage, archival_epoch_interval, pc, nops>>

NextTwoAppends ==
    \/ AppendBuild
    \/ AppendPut

SpecTwoAppends == InitTwoAppends /\ [][NextTwoAppends]_vars

\* C39: checkpoint_state_slot() never decreases from one step to the next,
\* however the steps of two append calls interleave.
C39_HeadSlotMonotonicInterleaved ==
    [][ IsSome(checkpoint_state_slot(db)) =>
            /\ IsSome(checkpoint_state_slot(db'))
            /\ Unwrap(checkpoint_state_slot(db')) >= Unwrap(checkpoint_state_slot(db))
      ]_vars

-----------------------------------------------------------------------------
\* Loads one after the other on a storage that holds older data: nothing, or
\* what an earlier load(Anchor) of a canonical block and an append of at most
\* one finalized link left, the checkpoint pair included. No append runs between the loads.

OlderDbs ==
    { LET loaded == PutBatch(EmptyDb, AnchorBatches(a.block, a.state)[1])
      IN  PutBatch(loaded, AppendBatch(loaded, << >>, finalized, FALSE, 1)) :
        a \in {x \in AnchorInputs : hash_tree_root(x.block) \in CanonicalRoots},
        finalized \in {f \in FinalizedInputs : Len(f) <= 1} }

InitRestart ==
    /\ db \in {EmptyDb} \cup OlderDbs
    /\ prune_storage = FALSE
    /\ archival_epoch_interval = 1
    /\ pc = "idle"
    /\ ld = NoLoad
    /\ ret = NoRet
    /\ nops = 0

NextRestart ==
    \/ LoadStartAnchor
    \/ LoadStartRemote
    \/ LoadStartAuto
    \/ FetchOk
    \/ FetchFail
    \/ LoadCommit
    \/ LoadCommitFail
    \/ Crash

SpecRestart == InitRestart /\ [][NextRestart]_vars

\* An Auto load without state_slot has chosen its anchor and is about to
\* commit it, and the operation before it was a load with the Anchor or the
\* Remote strategy that committed its anchor.
AutoAfterAnchorLoad ==
    /\ pc = "commit" /\ ld.strategy = "Auto"
    /\ ld.local = load_latest_state(ld.pre)
    /\ ret.op = "load" /\ ret.status = "ok"
    /\ ret.strategy \in {"Anchor", "Remote"}

\* C40: an Auto load without state_slot that follows a load with the Anchor
\* or Remote strategy, with no append in between, takes as its anchor the
\* block and state that load committed, and returns as unfinalized blocks
\* only descendants of that block.
C40_AutoRestartReturnsAnchor ==
    AutoAfterAnchorLoad =>
        /\ ld.anchor = ret.anchor
        /\ \A i \in 1..Len(ld.roots) :
               /\ ld.roots[i] # hash_tree_root(Unwrap(ret.anchor).block)
               /\ hash_tree_root(Unwrap(ret.anchor).block) \in ChainOf(ld.roots[i])

====
